---- MODULE Spec2Model ----
(***************************************************************************)
(* Model of the Sudoku solver (SudokuSolver: Dancing Links, bitmask        *)
(* backtracking, simple backtracking) and of the uniqueness-checked puzzle *)
(* generator (SudokuGenerator) of mdarud/pseudoku.                         *)
(*                                                                         *)
(* The recursive searches are modelled with an explicit call stack: one    *)
(* frame per active call, `pc` the position of the running call.  Grids    *)
(* are functions [0..8 -> [0..8 -> 0..9]], indexed like the source's       *)
(* board[row][col].  The DLX nodes live in an arena: index 1 is the        *)
(* header, 2..325 the column headers, 326.. the candidate nodes in the     *)
(* order addNode creates them.                                             *)
(***************************************************************************)
EXTENDS Integers, Sequences, FiniteSets, TLC

VARIABLES
    board,                \* SudokuSolver.board
    solutionSteps,        \* SudokuSolver.solutionSteps
    currentTestedValues,  \* SudokuSolver.currentTestedValues
    matrix,               \* header, columns and every DLXNode reachable from them
    rows, cols, boxes,    \* the three Uint16Array bit masks
    stats,                \* SudokuSolver.stats
    algorithm,            \* the argument of the running (or last) solve call
    stack,                \* the active searchDLX / searchBacktrack / solveSimple calls
    pc,                   \* position of the running call
    success,              \* value returned by the call that returned last
    returned,             \* the value the last solve(...) call evaluated to
    input,                \* the caller's grid, handed to setBoard
    results,              \* what the caller got back from each solve on `input`
    entry,                \* the board as it was when the last solve was called
    checked,              \* a call of the constraint checker and what it returned
    difficulty,           \* argument of generatePuzzle
    seed,                 \* the outcomes of the shuffles of this generatePuzzle call
    solution,             \* generatePuzzle: const solution
    puzzle,               \* generatePuzzle: const puzzle (digHoles' grid)
    cellsToRemove,        \* generatePuzzle: const cellsToRemove
    positions,            \* digHoles: the shuffled positions
    index,                \* digHoles: place of the for-of loop in positions
    holesRemaining,       \* digHoles: let holesRemaining
    attempts,             \* digHoles: let attempts
    digCalls,             \* digHoles invocations so far (depth of the tail recursion)
    backup,               \* digHoles: const backup
    boardCopy,            \* digHoles: const boardCopy
    solutionsFound,       \* hasMultipleSolutions: let solutionsFound, at its return
    gpc,                  \* position of the generator
    generated,            \* what generatePuzzle returned: {puzzle, solution}
    ui,                   \* the component's variables (board, originalBoard, ...)
    tasks,                \* the callbacks and async calls waiting for a timer
    last,                 \* the user's last action: resetPuzzle, generateNewPuzzle or another
    solves                \* solve calls the component has made

solverVars == <<board, solutionSteps, currentTestedValues, matrix, rows, cols,
                boxes, stats, algorithm, stack, pc, success>>
callerVars == <<input, results, entry, checked>>
fillVars == <<difficulty, seed, solution, cellsToRemove, generated>>
digVars == <<puzzle, positions, index, holesRemaining, attempts, digCalls, backup,
             boardCopy, solutionsFound>>
genVars == <<fillVars, digVars, gpc>>
\* Everything outside the solver object.
\* The page component.
uiVars == <<ui, tasks, last, solves>>
clientVars == <<returned, callerVars, genVars, uiVars>>
vars == <<solverVars, clientVars>>

-----------------------------------------------------------------------------
(* Grids *)

Idx == 0..8
Digits == 1..9

EmptyBoard == [r \in Idx |-> [c \in Idx |-> 0]]

\* board.map(row => [...row]): a fresh copy, cell for cell.
CopyBoard(b) == [r \in Idx |-> [c \in Idx |-> b[r][c]]]

\* What a copy of a grid shares with the grid it was made of: "nothing"
\* when the outer array and the rows are new arrays, "rows" when only the
\* outer array is new, "all" when the copy is the same object.
\* An assignment without a copy, `this.board = board`.
SameObject == "all"
\* `board.map(row => [...row])`: map builds the outer array, the spread
\* builds every row.
MapSpread == "nothing"

\* `[...list]`: the array is new.
Spread == "nothing"
\* An element of `[...list]` is the element of list: the same object.
SpreadElement == "all"

\* The cells of grid `original` after the holder of a copy of it wrote the
\* cells of its copy until they were `written`: a cell write goes to a row
\* array, and reaches the original when the rows are shared.  The same for
\* a list and the holder of a copy of the list, or of one of its elements.
AfterWrites(original, written, shares) ==
    IF shares = "nothing" THEN original ELSE written

BoxOf(row, col) == (row \div 3) * 3 + (col \div 3)

\* A grid written as nine rows of nine digits, read into the 0-based layout.
Grid(rowsOfDigits) == [r \in Idx |-> [c \in Idx |-> rowsOfDigits[r + 1][c + 1]]]

-----------------------------------------------------------------------------
(* Dancing Links: the node arena *)

Header == 1
NumColumns == 324
\* this.columns[i]
Columns(i) == i + 2

\* Number of candidate rows createMatrix adds for board b.
NumRows(b) ==
    LET perRow(r) == LET e == Cardinality({c \in Idx : b[r][c] = 0}) IN 9 * e + (9 - e)
    IN perRow(0) + perRow(1) + perRow(2) + perRow(3) + perRow(4)
       + perRow(5) + perRow(6) + perRow(7) + perRow(8)

\* Every node the build will allocate, in its state right after
\* `new DLXNode` / `new ColumnNode`: linked to itself in the four directions,
\* size 0, row = col = num = 0; a ColumnNode is its own column.
NewNodes(n) ==
    [ left   |-> [i \in 1..n |-> i],
      right  |-> [i \in 1..n |-> i],
      up     |-> [i \in 1..n |-> i],
      down   |-> [i \in 1..n |-> i],
      column |-> [i \in 1..n |-> IF i <= NumColumns + 1 THEN i ELSE 0],
      size   |-> [i \in 1..(NumColumns + 1) |-> 0],
      row    |-> [i \in 1..n |-> 0],
      col    |-> [i \in 1..n |-> 0],
      num    |-> [i \in 1..n |-> 0],
      nodes  |-> NumColumns + 1 ]      \* nodes constructed so far

\* The matrix of a solver on which no DLX solve has run: a lone header.
NoMatrix ==
    [ left |-> <<Header>>, right |-> <<Header>>, up |-> <<Header>>, down |-> <<Header>>,
      column |-> <<Header>>, size |-> <<0>>, row |-> <<0>>, col |-> <<0>>, num |-> <<0>>,
      nodes |-> 1 ]

\* e, once matrix m has been computed.  (TLC evaluates an operator's argument
\* when it is first read; a loop that only passes its matrix on would leave
\* the whole chain of updates to be evaluated, nested, at the very end.)
Having(m, e) == IF m.nodes > 0 THEN e ELSE e

\* createMatrix, body of the column-header loop for one i.
LinkColumn(m, i) ==
    LET col == Columns(i)
        m1 == [m  EXCEPT !.left[col] = m.left[Header]]
        m2 == [m1 EXCEPT !.right[col] = Header]
        m3 == [m2 EXCEPT !.right[m2.left[Header]] = col]
        m4 == [m3 EXCEPT !.left[Header] = col]
    IN m4
RECURSIVE LinkColumns(_, _, _)
\* createMatrix, the column-header loop for i = lo, lo+1, ..., hi in that
\* order; the range is halved so that the evaluation nests only a few deep.
LinkColumns(m, lo, hi) ==
    IF lo > hi THEN m
    ELSE IF lo = hi THEN LinkColumn(m, lo)
    ELSE LET mid == (lo + hi) \div 2
             m1 == LinkColumns(m, lo, mid)
         IN Having(m1, LinkColumns(m1, mid + 1, hi))

\* An addNode without `column.size++`.
addNodeUncounted(m, column, row, col, num) ==
    LET node == m.nodes + 1
        m1 == [m  EXCEPT !.column[node] = column, !.row[node] = row,
                         !.col[node] = col, !.num[node] = num]
        m2 == [m1 EXCEPT !.up[node] = m1.up[column]]
        m3 == [m2 EXCEPT !.down[node] = column]
        m4 == [m3 EXCEPT !.down[m3.up[column]] = node]
        m5 == [m4 EXCEPT !.up[column] = node]
    IN [m5 EXCEPT !.nodes = @ + 1]

\* addNode(column, row, col, num): the new node is m.nodes.
addNode(m, column, row, col, num) ==
    LET node == m.nodes + 1
        m1 == [m  EXCEPT !.column[node] = column, !.row[node] = row,
                         !.col[node] = col, !.num[node] = num]
        m2 == [m1 EXCEPT !.up[node] = m1.up[column]]
        m3 == [m2 EXCEPT !.down[node] = column]
        m4 == [m3 EXCEPT !.down[m3.up[column]] = node]
        m5 == [m4 EXCEPT !.up[column] = node]
        m6 == [m5 EXCEPT !.size[column] = @ + 1, !.nodes = @ + 1]
    IN m6

\* addRow(row, col, num): four nodes, then the horizontal circle.
addRow(m, row, col, num) ==
    LET box == BoxOf(row, col)
        cell == row * 9 + col
        rowNum == row * 9 + (num - 1)
        colNum == col * 9 + (num - 1)
        boxNum == box * 9 + (num - 1)
        n0 == m.nodes + 1
        a == addNode(m, Columns(cell), row, col, num)
        b == addNode(a, Columns(81 + rowNum), row, col, num)
        c == addNode(b, Columns(162 + colNum), row, col, num)
        d == addNode(c, Columns(243 + boxNum), row, col, num)
    IN [d EXCEPT !.right = [@ EXCEPT ![n0] = n0 + 1, ![n0 + 1] = n0 + 2,
                                     ![n0 + 2] = n0 + 3, ![n0 + 3] = n0],
                 !.left  = [@ EXCEPT ![n0 + 1] = n0, ![n0 + 2] = n0 + 1,
                                     ![n0 + 3] = n0 + 2, ![n0] = n0 + 3]]

RECURSIVE AddNums(_, _, _, _)
\* for (num = from; num <= 9; num++) addRow(row, col, num)
AddNums(m, row, col, from) ==
    IF from > 9 THEN m
    ELSE LET m1 == addRow(m, row, col, from)
         IN Having(m1, AddNums(m1, row, col, from + 1))

\* createMatrix, body of the cell loops for one cell.
AddCell(m, b, row, col) ==
    IF b[row][col] = 0 THEN AddNums(m, row, col, 1)
    ELSE addRow(m, row, col, b[row][col])

RECURSIVE AddCols(_, _, _, _)
AddCols(m, b, row, col) ==
    IF col > 8 THEN m
    ELSE LET m1 == AddCell(m, b, row, col)
         IN Having(m1, AddCols(m1, b, row, col + 1))

RECURSIVE AddRows(_, _, _)
AddRows(m, b, row) ==
    IF row > 8 THEN m
    ELSE LET m1 == AddCols(m, b, row, 0)
         IN Having(m1, AddRows(m1, b, row + 1))

\* createMatrix() on board b.
createMatrix(b) ==
    LET m0 == NewNodes(NumColumns + 1 + 4 * NumRows(b))
        m1 == LinkColumns(m0, 0, NumColumns - 1)
    IN Having(m1, AddRows(m1, b, 0))

RECURSIVE CoverRight(_, _, _)
\* cover: the inner loop, from node `right` of the row through `row`.
CoverRight(m, row, right) ==
    IF right = row THEN m
    ELSE LET m1 == [m  EXCEPT !.up[m.down[right]] = m.up[right]]
             m2 == [m1 EXCEPT !.down[m1.up[right]] = m1.down[right]]
             m3 == [m2 EXCEPT !.size[m2.column[right]] = @ - 1]
         IN CoverRight(m3, row, m3.right[right])

RECURSIVE CoverRows(_, _, _)
\* cover: the outer loop, from `row` down to the column header.
CoverRows(m, column, row) ==
    IF row = column THEN m
    ELSE LET m1 == CoverRight(m, row, m.right[row])
         IN CoverRows(m1, column, m1.down[row])

\* cover(column)
cover(m, column) ==
    LET m1 == [m  EXCEPT !.left[m.right[column]] = m.left[column]]
        m2 == [m1 EXCEPT !.right[m1.left[column]] = m1.right[column]]
    IN CoverRows(m2, column, m2.down[column])

RECURSIVE UncoverLeftKeepingSize(_, _, _)
\* The inner loop of uncover without `left.column.size++`.
UncoverLeftKeepingSize(m, row, left) ==
    IF left = row THEN m
    ELSE LET m2 == [m  EXCEPT !.up[m.down[left]] = left]
             m3 == [m2 EXCEPT !.down[m2.up[left]] = left]
         IN UncoverLeftKeepingSize(m3, row, m3.left[left])

RECURSIVE UncoverLeft(_, _, _)
\* uncover: the inner loop, from node `left` of the row through `row`.
UncoverLeft(m, row, left) ==
    IF left = row THEN m
    ELSE LET m1 == [m  EXCEPT !.size[m.column[left]] = @ + 1]
             m2 == [m1 EXCEPT !.up[m1.down[left]] = left]
             m3 == [m2 EXCEPT !.down[m2.up[left]] = left]
         IN UncoverLeft(m3, row, m3.left[left])

RECURSIVE UncoverRows(_, _, _)
\* uncover: the outer loop, from `row` up to the column header.
UncoverRows(m, column, row) ==
    IF row = column THEN m
    ELSE LET m1 == UncoverLeft(m, row, m.left[row])
         IN UncoverRows(m1, column, m1.up[row])

\* uncover(column)
uncover(m, column) ==
    LET m1 == UncoverRows(m, column, m.up[column])
        m2 == [m1 EXCEPT !.left[m1.right[column]] = column]
        m3 == [m2 EXCEPT !.right[m2.left[column]] = column]
    IN m3

RECURSIVE CoverRowColumns(_, _, _)
\* searchDLX: for (right = row.right; right !== row; ...) cover(right.column)
CoverRowColumns(m, row, right) ==
    IF right = row THEN m
    ELSE LET m1 == cover(m, m.column[right])
         IN CoverRowColumns(m1, row, m1.right[right])

RECURSIVE UncoverRowColumns(_, _, _)
\* searchDLX: for (left = row.left; left !== row; ...) uncover(left.column)
UncoverRowColumns(m, row, left) ==
    IF left = row THEN m
    ELSE LET m1 == uncover(m, m.column[left])
         IN UncoverRowColumns(m1, row, m1.left[left])

\* A scan in which a column as small as the smallest so far replaces it.
ScanStepLastWins(m, s) ==
    IF s.stop \/ s.col = Header THEN [s EXCEPT !.stop = TRUE]
    ELSE IF m.size[s.col] <= s.minSize
         THEN [col |-> m.right[s.col], minColumn |-> s.col, minSize |-> m.size[s.col],
               stop |-> (m.size[s.col] = 1)]
         ELSE [s EXCEPT !.col = m.right[s.col]]

\* searchDLX, the MRV scan: s = [col, minColumn, minSize, stop].  One
\* iteration of the for loop over the header ring.
ScanStep(m, s) ==
    IF s.stop \/ s.col = Header THEN [s EXCEPT !.stop = TRUE]
    ELSE IF m.size[s.col] < s.minSize
         THEN [col |-> m.right[s.col], minColumn |-> s.col, minSize |-> m.size[s.col],
               stop |-> (m.size[s.col] = 1)]
         ELSE [s EXCEPT !.col = m.right[s.col]]

RECURSIVE Scan(_, _, _, _)
\* ScanStep repeated 7^level times (the ring holds at most 324 columns), or
\* until the loop has ended.
Scan(m, s, level, n) ==
    IF n = 0 \/ s.stop THEN s
    ELSE IF level = 0 THEN Scan(m, ScanStep(m, s), 0, n - 1)
    ELSE Scan(m, Scan(m, s, level - 1, 7), level, n - 1)

\* searchDLX lines 414-423: the column chosen and its size.
ChooseColumn(m) ==
    LET first == m.right[Header]
    IN Scan(m, [col |-> m.right[first], minColumn |-> first,
                minSize |-> m.size[first], stop |-> FALSE], 2, 7)

-----------------------------------------------------------------------------
(* Bit masks (Uint16Array entries, JavaScript bitwise operators) *)

Bits(m) == {k \in 0..15 : (m \div (2 ^ k)) % 2 = 1}
Mask(S) ==
    LET b(k) == IF k \in S THEN 2 ^ k ELSE 0
    IN b(0) + b(1) + b(2) + b(3) + b(4) + b(5) + b(6) + b(7)
       + b(8) + b(9) + b(10) + b(11) + b(12) + b(13) + b(14) + b(15)
\* a | b
BitOr(a, b) == Mask(Bits(a) \cup Bits(b))
\* a & ~b
BitAndNot(a, b) == Mask(Bits(a) \ Bits(b))
\* The highest set bit of n (n # 0).
HighestBit(n) == 2 ^ (CHOOSE k \in Bits(n) : \A j \in Bits(n) : k >= j)
\* n & -n: the lowest set bit of n (n # 0)
LowestBit(n) == 2 ^ (CHOOSE k \in Bits(n) : \A j \in Bits(n) : k <= j)
\* A logarithm that is one too small.
Log2Low(n) == (CHOOSE k \in 0..15 : 2 ^ k = n) - 1
\* Math.log2 of a power of two
Log2(n) == CHOOSE k \in 0..15 : 2 ^ k = n

ALL_NUMS == 1022    \* 0b1111111110

\* initializeBitArrays(): the masks of board b.
RowMask(b, row) == Mask({b[row][c] : c \in Idx} \ {0})
ColMask(b, col) == Mask({b[r][col] : r \in Idx} \ {0})
\* A box mask of the top row of the box only.
BoxMaskTopRow(b, box) == Mask({b[(box \div 3) * 3][c] :
                                 c \in {x \in Idx : x \div 3 = box % 3}} \ {0})
BoxMask(b, box) == Mask({b[r][c] : r \in {x \in Idx : x \div 3 = box \div 3},
                                   c \in {x \in Idx : x \div 3 = box % 3}} \ {0})

\* getValidNumbers(row, col)
getValidNumbers(rs, cs, bs, row, col) ==
    LET box == BoxOf(row, col)
        used == BitOr(BitOr(rs[row], cs[col]), bs[box])
    IN BitAndNot(ALL_NUMS, used)

-----------------------------------------------------------------------------
(* Constraint checker and cell scan *)

\* isValid without its third loop: the 3x3 box is not looked at.
isValidRowColumn(b, row, col, num) ==
    /\ \A x \in Idx : b[row][x] # num
    /\ \A x \in Idx : b[x][col] # num

\* A checker that does not look at cell (row, col).
isValidSkippingCell(b, row, col, num) ==
    /\ \A x \in Idx \ {col} : b[row][x] # num
    /\ \A x \in Idx \ {row} : b[x][col] # num
    /\ LET boxRow == (row \div 3) * 3
           boxCol == (col \div 3) * 3
       IN \A i \in 0..2 : \A j \in 0..2 :
             <<boxRow + i, boxCol + j>> # <<row, col>>
             => b[boxRow + i][boxCol + j] # num

\* SudokuSolver.isValid(row, col, num) on board b
isValid(b, row, col, num) ==
    /\ \A x \in Idx : b[row][x] # num
    /\ \A x \in Idx : b[x][col] # num
    /\ LET boxRow == (row \div 3) * 3
           boxCol == (col \div 3) * 3
       IN \A i \in 0..2 : \A j \in 0..2 : b[boxRow + i][boxCol + j] # num

\* isSafe without its last loop: the 3x3 box is not looked at.
isSafeRowColumn(g, row, col, num) ==
    /\ \A j \in 0..8 : g[row][j] # num
    /\ \A i \in 0..8 : g[i][col] # num

\* SudokuGenerator.isSafe(grid, row, col, num)
isSafe(g, row, col, num) ==
    LET boxRow == (row \div 3) * 3
        boxCol == (col \div 3) * 3
    IN /\ \A j \in 0..8 : g[row][j] # num
       /\ \A i \in 0..8 : g[i][col] # num
       /\ \A i \in 0..2 : \A j \in 0..2 : g[boxRow + i][boxCol + j] # num

HasEmpty(b) == \E r \in Idx : \E c \in Idx : b[r][c] = 0
\* The cell the row-major double loop stops at: the first empty cell.
FirstEmptyRow(b) ==
    CHOOSE r \in Idx : (\E c \in Idx : b[r][c] = 0)
                       /\ \A r2 \in 0..(r - 1) : \A c \in Idx : b[r2][c] # 0
\* The last empty cell of row r instead of the first.
LastEmptyCol(b, r) ==
    CHOOSE c \in Idx : b[r][c] = 0 /\ \A c2 \in (c + 1)..8 : b[r][c2] # 0
FirstEmptyCol(b, r) ==
    CHOOSE c \in Idx : b[r][c] = 0 /\ \A c2 \in 0..(c - 1) : b[r][c2] # 0

-----------------------------------------------------------------------------
(* Call stack and step trace *)

Top == stack[Len(stack)]
Pop(s) == IF s = <<>> THEN s ELSE SubSeq(s, 1, Len(s) - 1)
SetTop(s, f) == [s EXCEPT ![Len(s)] = f]

\* A Step that copies the tested values as they were before the last push.
StepBeforePush(row, col, tested, value) ==
    [row |-> row, col |-> col, testedValues |-> Pop(tested), finalValue |-> value]

\* solutionSteps.push({row, col, testedValues: [...currentTestedValues], finalValue})
Step(row, col, tested, value) ==
    [row |-> row, col |-> col, testedValues |-> tested, finalValue |-> value]

Algorithms == {"DLX", "BACKTRACK", "SIMPLE"}

-----------------------------------------------------------------------------
(* SudokuSolver: Dancing Links search *)

\* What searchDLX reads and writes, as one value.
DLXState ==
    [board |-> board, solutionSteps |-> solutionSteps,
     currentTestedValues |-> currentTestedValues, matrix |-> matrix,
     stack |-> stack, pc |-> pc, success |-> success]

LastOf(q) == q[Len(q)]

\* searchDLX(k), from its entry to the head of the row loop (or to its
\* early return).  `return true` goes through every calling frame, each of
\* which returns true in turn.
searchDLXEnter(s) ==
    IF s.matrix.right[Header] = Header
    THEN [s EXCEPT !.success = TRUE, !.stack = <<>>, !.pc = "ret"]
    ELSE LET chosen == ChooseColumn(s.matrix)
             minColumn == chosen.minColumn
             covered == cover(s.matrix, minColumn)
         IN IF chosen.minSize = 0
            THEN [s EXCEPT !.success = FALSE, !.pc = "ret"]
            ELSE [s EXCEPT !.matrix = covered,
                           !.currentTestedValues = <<>>,
                           !.stack = Append(@, [minColumn |-> minColumn,
                                                row |-> covered.down[minColumn]]),
                           !.pc = "loop"]

\* searchDLX, one pass through the row loop up to the recursive call (or to
\* `continue`).
searchDLXTryRow(s) ==
    LET top == LastOf(s.stack)
        row == top.row
        r == s.matrix.row[row]
        c == s.matrix.col[row]
        n == s.matrix.num[row]
        tested == Append(s.currentTestedValues, n)
    IN IF s.board[r][c] # 0 /\ s.board[r][c] # n
       THEN [s EXCEPT !.stack = SetTop(@, [top EXCEPT !.row = s.matrix.down[row]])]
       ELSE [s EXCEPT !.currentTestedValues = tested,
                      !.matrix = CoverRowColumns(@, row, @.right[row]),
                      !.solutionSteps = IF s.board[r][c] = 0
                                        THEN Append(@, Step(r, c, tested, n))
                                        ELSE @,
                      !.board = [@ EXCEPT ![r][c] = n],
                      !.pc = "call"]

\* searchDLX after the recursive call returned false: undo, uncover, next row.
searchDLXBacktrack(s) ==
    LET top == LastOf(s.stack)
        row == top.row
        r == s.matrix.row[row]
        c == s.matrix.col[row]
        n == s.matrix.num[row]
        uncovered == UncoverRowColumns(s.matrix, row, s.matrix.left[row])
    IN [s EXCEPT !.board = IF s.board[r][c] = n THEN [@ EXCEPT ![r][c] = 0] ELSE @,
                 !.solutionSteps = IF s.board[r][c] = n THEN Pop(@) ELSE @,
                 !.matrix = uncovered,
                 !.stack = SetTop(@, [top EXCEPT !.row = uncovered.down[row]]),
                 !.pc = "loop"]

\* A return from the row loop without uncover(minColumn).
searchDLXExhaustedCovered(s) ==
    [s EXCEPT !.stack = Pop(@),
              !.success = FALSE,
              !.pc = "ret"]

\* searchDLX when the row loop has run out: uncover(minColumn); return false.
searchDLXExhausted(s) ==
    [s EXCEPT !.matrix = uncover(@, LastOf(s.stack).minColumn),
              !.stack = Pop(@),
              !.success = FALSE,
              !.pc = "ret"]

\* The steps of searchDLX, told apart by where the running call stands.
AtSearch(s) == s.pc = "call"
AtTryRow(s) == s.pc = "loop" /\ LastOf(s.stack).row # LastOf(s.stack).minColumn
AtExhausted(s) == s.pc = "loop" /\ LastOf(s.stack).row = LastOf(s.stack).minColumn
AtBacktrack(s) == s.pc = "ret" /\ s.success = FALSE /\ s.stack # <<>>

\* The outermost searchDLX has returned.
DLXReturned(s) == s.pc = "ret" /\ s.stack = <<>>

searchDLXStep(s) ==
    IF AtSearch(s) THEN searchDLXEnter(s)
    ELSE IF AtTryRow(s) THEN searchDLXTryRow(s)
    ELSE IF AtExhausted(s) THEN searchDLXExhausted(s)
    ELSE IF AtBacktrack(s) THEN searchDLXBacktrack(s)
    ELSE s

\* How many steps of a search one call of the generator may take: 2^RunDepth.
RunDepth == 16

RECURSIVE searchDLX(_, _)
\* searchDLX run from state s until the outermost call returns; the steps
\* are taken in two halves so that the evaluation nests only a few deep.
searchDLX(s, depth) ==
    IF DLXReturned(s) THEN s
    ELSE IF depth = 0 THEN searchDLXStep(s)
    ELSE CHOOSE t \in {IF DLXReturned(half) THEN half ELSE searchDLX(half, depth - 1) :
                          half \in {searchDLX(s, depth - 1)}} : TRUE

\* The solver's variables take the values of DLX state t.  (The actions bind
\* t with \E so that the step is computed once.)
BecomesDLX(t) ==
    /\ board' = t.board
    /\ solutionSteps' = t.solutionSteps
    /\ currentTestedValues' = t.currentTestedValues
    /\ matrix' = t.matrix
    /\ stack' = t.stack
    /\ pc' = t.pc
    /\ success' = t.success

DLXSearch ==
    /\ algorithm = "DLX" /\ AtSearch(DLXState)
    /\ \E t \in {searchDLXEnter(DLXState)} : BecomesDLX(t)
    /\ UNCHANGED <<rows, cols, boxes, stats, algorithm>>
    /\ UNCHANGED clientVars

DLXTryRow ==
    /\ algorithm = "DLX" /\ AtTryRow(DLXState)
    /\ \E t \in {searchDLXTryRow(DLXState)} : BecomesDLX(t)
    /\ UNCHANGED <<rows, cols, boxes, stats, algorithm>>
    /\ UNCHANGED clientVars

DLXBacktrack ==
    /\ algorithm = "DLX" /\ AtBacktrack(DLXState)
    /\ \E t \in {searchDLXBacktrack(DLXState)} : BecomesDLX(t)
    /\ UNCHANGED <<rows, cols, boxes, stats, algorithm>>
    /\ UNCHANGED clientVars

DLXExhausted ==
    /\ algorithm = "DLX" /\ AtExhausted(DLXState)
    /\ \E t \in {searchDLXExhausted(DLXState)} : BecomesDLX(t)
    /\ UNCHANGED <<rows, cols, boxes, stats, algorithm>>
    /\ UNCHANGED clientVars

-----------------------------------------------------------------------------
(* SudokuSolver: backtracking with bit operations *)

\* searchBacktrack(), from its entry to the head of the while loop; where
\* it returns true, every calling frame returns true in turn.
BacktrackSearch ==
    /\ pc = "call" /\ algorithm = "BACKTRACK"
    /\ IF ~HasEmpty(board)
       THEN /\ success' = TRUE
            /\ stack' = <<>>
            /\ pc' = "ret"
            /\ UNCHANGED currentTestedValues
       ELSE LET row == FirstEmptyRow(board)
                col == FirstEmptyCol(board, row)
                validNums == getValidNumbers(rows, cols, boxes, row, col)
            IN /\ currentTestedValues' = <<>>
               /\ stack' = Append(stack, [row |-> row, col |-> col,
                                          nums |-> validNums, num |-> 0])
               /\ pc' = "loop"
               /\ UNCHANGED success
    /\ UNCHANGED <<board, solutionSteps, matrix, rows, cols, boxes, stats, algorithm>>
    /\ UNCHANGED clientVars

\* searchBacktrack, one pass through the while loop up to the recursive call.
BacktrackTry ==
    /\ pc = "loop" /\ algorithm = "BACKTRACK"
    /\ Top.nums # 0
    /\ LET row == Top.row
           col == Top.col
           num == LowestBit(Top.nums)
           nums == BitAndNot(Top.nums, num)
           value == Log2(num)
           box == BoxOf(row, col)
       IN /\ currentTestedValues' = Append(currentTestedValues, value)
          /\ rows' = [rows EXCEPT ![row] = BitOr(@, num) % 65536]
          /\ cols' = [cols EXCEPT ![col] = BitOr(@, num) % 65536]
          /\ boxes' = [boxes EXCEPT ![box] = BitOr(@, num) % 65536]
          /\ board' = [board EXCEPT ![row][col] = value]
          /\ solutionSteps' = Append(solutionSteps,
                                     Step(row, col, currentTestedValues', value))
          /\ stack' = SetTop(stack, [Top EXCEPT !.nums = nums, !.num = num])
    /\ pc' = "call"
    /\ UNCHANGED <<matrix, stats, algorithm, success>>
    /\ UNCHANGED clientVars

\* searchBacktrack after the recursive call returned false.
BacktrackUndo ==
    /\ pc = "ret" /\ algorithm = "BACKTRACK"
    /\ success = FALSE /\ stack # <<>>
    /\ LET row == Top.row
           col == Top.col
           num == Top.num
           box == BoxOf(row, col)
       IN /\ rows' = [rows EXCEPT ![row] = BitAndNot(@, num) % 65536]
          /\ cols' = [cols EXCEPT ![col] = BitAndNot(@, num) % 65536]
          /\ boxes' = [boxes EXCEPT ![box] = BitAndNot(@, num) % 65536]
          /\ board' = [board EXCEPT ![row][col] = 0]
          /\ solutionSteps' = Pop(solutionSteps)
    /\ pc' = "loop"
    /\ UNCHANGED <<currentTestedValues, matrix, stats, algorithm, stack, success>>
    /\ UNCHANGED clientVars

\* searchBacktrack when no candidate is left: return false.
BacktrackExhausted ==
    /\ pc = "loop" /\ algorithm = "BACKTRACK"
    /\ Top.nums = 0
    /\ stack' = Pop(stack)
    /\ success' = FALSE
    /\ pc' = "ret"
    /\ UNCHANGED <<board, solutionSteps, currentTestedValues, matrix, rows, cols,
                   boxes, stats, algorithm>>
    /\ UNCHANGED clientVars

-----------------------------------------------------------------------------
(* SudokuSolver: simple backtracking *)

\* solveSimple without `this.currentTestedValues = []`.
SimpleSearchKeepingTested ==
    /\ pc = "call" /\ algorithm = "SIMPLE"
    /\ IF ~HasEmpty(board)
       THEN /\ success' = TRUE
            /\ stack' = <<>>
            /\ pc' = "ret"
       ELSE LET row == FirstEmptyRow(board)
                col == FirstEmptyCol(board, row)
            IN /\ stack' = Append(stack, [row |-> row, col |-> col, num |-> 1])
               /\ pc' = "loop"
               /\ UNCHANGED success
    /\ UNCHANGED <<board, solutionSteps, currentTestedValues, matrix, rows, cols, boxes,
                   stats, algorithm>>
    /\ UNCHANGED clientVars

\* solveSimple(), from its entry to the head of the num loop; where it
\* returns true, every calling frame returns true in turn.
SimpleSearch ==
    /\ pc = "call" /\ algorithm = "SIMPLE"
    /\ IF ~HasEmpty(board)
       THEN /\ success' = TRUE
            /\ stack' = <<>>
            /\ pc' = "ret"
            /\ UNCHANGED currentTestedValues
       ELSE LET row == FirstEmptyRow(board)
                col == FirstEmptyCol(board, row)
            IN /\ currentTestedValues' = <<>>
               /\ stack' = Append(stack, [row |-> row, col |-> col, num |-> 1])
               /\ pc' = "loop"
               /\ UNCHANGED success
    /\ UNCHANGED <<board, solutionSteps, matrix, rows, cols, boxes, stats, algorithm>>
    /\ UNCHANGED clientVars

\* solveSimple, one pass through the num loop: up to the recursive call when
\* num is valid, to the next num otherwise.
SimpleTry ==
    /\ pc = "loop" /\ algorithm = "SIMPLE"
    /\ Top.num <= 9
    /\ LET row == Top.row
           col == Top.col
           num == Top.num
       IN /\ currentTestedValues' = Append(currentTestedValues, num)
          /\ IF isValid(board, row, col, num)
             THEN /\ board' = [board EXCEPT ![row][col] = num]
                  /\ solutionSteps' = Append(solutionSteps,
                                             Step(row, col, currentTestedValues', num))
                  /\ pc' = "call"
                  /\ UNCHANGED stack
             ELSE /\ stack' = SetTop(stack, [Top EXCEPT !.num = num + 1])
                  /\ UNCHANGED <<board, solutionSteps, pc>>
    /\ UNCHANGED <<matrix, rows, cols, boxes, stats, algorithm, success>>
    /\ UNCHANGED clientVars

\* solveSimple after the recursive call returned false.
SimpleUndo ==
    /\ pc = "ret" /\ algorithm = "SIMPLE"
    /\ success = FALSE /\ stack # <<>>
    /\ board' = [board EXCEPT ![Top.row][Top.col] = 0]
    /\ solutionSteps' = Pop(solutionSteps)
    /\ stack' = SetTop(stack, [Top EXCEPT !.num = @ + 1])
    /\ pc' = "loop"
    /\ UNCHANGED <<currentTestedValues, matrix, rows, cols, boxes, stats, algorithm,
                   success>>
    /\ UNCHANGED clientVars

\* solveSimple when the num loop has run out: return false.
SimpleExhausted ==
    /\ pc = "loop" /\ algorithm = "SIMPLE"
    /\ Top.num > 9
    /\ stack' = Pop(stack)
    /\ success' = FALSE
    /\ pc' = "ret"
    /\ UNCHANGED <<board, solutionSteps, currentTestedValues, matrix, rows, cols,
                   boxes, stats, algorithm>>
    /\ UNCHANGED clientVars

-----------------------------------------------------------------------------
(* SudokuSolver: public methods, and the caller *)

\* getSolution()
getSolution == CopyBoard(board)
\* getSolutionSteps()
getSolutionSteps == solutionSteps

\* setBoard(g): the caller hands its grid to the solver.
SetBoard(g) ==
    /\ pc = "idle"
    /\ board' = CopyBoard(g)
    /\ solutionSteps' = <<>>
    /\ pc' = "ready"
    /\ UNCHANGED <<currentTestedValues, matrix, rows, cols, boxes, stats, algorithm,
                   stack, success>>

\* A solve that begins without `this.solutionSteps = []`.
SolveKeepingTrace(a) ==
    /\ pc \in {"idle", "ready"}
    /\ algorithm' = a
    /\ stack' = <<>>
    /\ pc' = "call"
    /\ IF a = "DLX"
       THEN /\ matrix' = createMatrix(board)
            /\ UNCHANGED <<rows, cols, boxes>>
       ELSE IF a = "BACKTRACK"
       THEN /\ rows' = [r \in Idx |-> RowMask(board, r)]
            /\ cols' = [c \in Idx |-> ColMask(board, c)]
            /\ boxes' = [b \in Idx |-> BoxMask(board, b)]
            /\ UNCHANGED matrix
       ELSE UNCHANGED <<matrix, rows, cols, boxes>>
    /\ UNCHANGED <<board, solutionSteps, currentTestedValues, stats, success>>

\* solve(a), up to the first call of the search function: solveDLX builds
\* the matrix, solveBacktrack fills the bit arrays.
Solve(a) ==
    /\ pc \in {"idle", "ready"}
    /\ solutionSteps' = <<>>
    /\ algorithm' = a
    /\ stack' = <<>>
    /\ pc' = "call"
    /\ IF a = "DLX"
       THEN /\ matrix' = createMatrix(board)
            /\ UNCHANGED <<rows, cols, boxes>>
       ELSE IF a = "BACKTRACK"
       THEN /\ rows' = [r \in Idx |-> RowMask(board, r)]
            /\ cols' = [c \in Idx |-> ColMask(board, c)]
            /\ boxes' = [b \in Idx |-> BoxMask(board, b)]
            /\ UNCHANGED matrix
       ELSE UNCHANGED <<matrix, rows, cols, boxes>>
    /\ UNCHANGED <<board, currentTestedValues, stats, success>>

\* A JavaScript value, as far as a condition can tell values apart.
Undefined == [type |-> "undefined", value |-> <<>>]
Object(o) == [type |-> "object", value |-> o]
Boolean(b) == [type |-> "boolean", value |-> b]
\* ToBoolean: what `if (v)` and `!v` see.
Truthy(v) == IF v.type = "boolean" THEN v.value ELSE v.type = "object"

\* this.stats = {algorithm, timeMs, steps}: timeMs, a wall-clock reading, is
\* left out.
SolverStats(a, steps) == [algorithm |-> a, steps |-> Len(steps)]

\* solveDLX() on board b: createMatrix(), then searchDLX(0) to its return.
solveDLX(b, tested) ==
    searchDLX([board |-> b, solutionSteps |-> <<>>, currentTestedValues |-> tested,
               matrix |-> createMatrix(b), stack |-> <<>>, pc |-> "call",
               success |-> FALSE], RunDepth)

\* A solve that hands its statistics back only after a search that found a
\* solution.
SolveReturnOnSuccess ==
    /\ pc = "ret" /\ stack = <<>> /\ success
    /\ stats' = SolverStats(algorithm, solutionSteps)
    /\ returned' = Object(stats')
    /\ pc' = "returned"
    /\ UNCHANGED <<board, solutionSteps, currentTestedValues, matrix, rows, cols,
                   boxes, algorithm, stack, success>>
    /\ UNCHANGED <<callerVars, genVars, uiVars>>

\* solve, after the search returned: the statistics are stored and
\* `return this.stats` hands them to the caller (timeMs, a wall-clock reading,
\* is left out).  The local `success` is not used after the switch.
SolveReturn ==
    /\ pc = "ret" /\ stack = <<>>
    /\ stats' = SolverStats(algorithm, solutionSteps)
    /\ returned' = Object(stats')
    /\ pc' = "returned"
    /\ UNCHANGED <<board, solutionSteps, currentTestedValues, matrix, rows, cols,
                   boxes, algorithm, stack, success>>
    /\ UNCHANGED <<callerVars, genVars, uiVars>>

-----------------------------------------------------------------------------
(* Input grids *)

\* How many algorithms the caller runs on its grid, one after the other.
MaxRuns == 3
\* How many cells of the base grid an input has empty.
MaxHoles == 4

\* A full valid grid (one generateFilledGrid produces).
Base ==
    Grid(<< <<4, 1, 5, 2, 3, 6, 7, 9, 8>>,
            <<6, 9, 2, 1, 8, 7, 4, 3, 5>>,
            <<3, 7, 8, 4, 5, 9, 2, 1, 6>>,
            <<5, 4, 7, 3, 1, 8, 9, 6, 2>>,
            <<1, 8, 9, 6, 2, 4, 5, 7, 3>>,
            <<2, 3, 6, 7, 9, 5, 8, 4, 1>>,
            <<8, 6, 3, 9, 7, 2, 1, 5, 4>>,
            <<9, 5, 4, 8, 6, 1, 3, 2, 7>>,
            <<7, 2, 1, 5, 4, 3, 6, 8, 9>> >>)

\* Cells emptied in the inputs: the four corners of a rectangle whose two
\* values can be swapped (rows 0 and 8, columns 7 and 8), and the cell that
\* holds the 1 of row 0.
HoleCells == {<<0, 7>>, <<0, 8>>, <<8, 7>>, <<8, 8>>, <<0, 1>>}

Dig(g, H) == [r \in Idx |-> [c \in Idx |-> IF <<r, c>> \in H THEN 0 ELSE g[r][c]]]
Put(g, row, col, v) == [g EXCEPT ![row][col] = v]

Dug == {Dig(Base, H) : H \in {S \in SUBSET HoleCells : Cardinality(S) <= MaxHoles}}

\* Grids without completion.  No two clues clash, but the 9 written at (8,6)
\* leaves cell (8,8) and cell (3,6) without a legal value.
Stuck == {Put(Dig(Base, H \cup {<<3, 6>>, <<8, 8>>}), 8, 6, 9) :
              H \in SUBSET {<<0, 7>>, <<0, 8>>}}
\* Two clues clash: a second 1 in row 0.
Clash == {Put(Base, 0, 0, 1)}


\* A grid with 43 empty cells and one completion, on which searchDLX meets a
\* column without candidates and backtracks.
Sparse ==
    Grid(<< <<0, 0, 0, 2, 0, 3, 0, 0, 0>>,
            <<3, 9, 2, 4, 8, 5, 1, 0, 7>>,
            <<0, 0, 5, 6, 0, 0, 0, 0, 0>>,
            <<4, 1, 3, 0, 0, 0, 0, 0, 0>>,
            <<2, 5, 8, 0, 7, 6, 9, 1, 0>>,
            <<7, 6, 9, 0, 0, 0, 0, 0, 2>>,
            <<9, 0, 6, 0, 2, 0, 0, 3, 0>>,
            <<5, 2, 0, 0, 3, 0, 0, 0, 1>>,
            <<0, 0, 1, 0, 0, 4, 5, 0, 9>> >>)

\* A grid with nine empty cells and several completions, two of which the
\* algorithms tell apart.
Ambiguous ==
    Dig(Base, {<<0, 1>>, <<0, 3>>, <<0, 6>>, <<1, 2>>, <<1, 3>>, <<2, 1>>, <<2, 6>>,
               <<8, 1>>, <<8, 2>>})

InputGrids == Dug \cup Stuck \cup Clash \cup {EmptyBoard, Sparse, Ambiguous}

-----------------------------------------------------------------------------
(* The solver and its caller *)

NoInput == <<>>
NoGrid == <<>>
NoCheck == <<>>

\* After `new SudokuSolver()` and `new SudokuGenerator()`.
\* null
Null == <<>>

\* The component's variables as they are declared.
Declared ==
    [board |-> EmptyBoard, originalBoard |-> EmptyBoard, solution |-> Null,
     selectedCell |-> Null, showingSolution |-> FALSE, isSolving |-> FALSE,
     selectedAlgorithm |-> "DLX", currentStep |-> 0 - 1, solutionSteps |-> <<>>,
     isStepMode |-> FALSE, isPuzzleCreationMode |-> FALSE,
     isAnimatingTests |-> FALSE]

\* A user action other than resetPuzzle and generateNewPuzzle.
Other == "other"

\* A callback or an async call that waits: function fn is at its await
\* `at`, in its loops at Step i of steps and tested value j.
Task(fn, at, steps, i, j) == [fn |-> fn, at |-> at, steps |-> steps, i |-> i, j |-> j]

Init ==
    /\ board = EmptyBoard
    /\ solutionSteps = <<>>
    /\ currentTestedValues = <<>>
    /\ matrix = NoMatrix
    /\ rows = [i \in Idx |-> 0]
    /\ cols = [i \in Idx |-> 0]
    /\ boxes = [i \in Idx |-> 0]
    /\ stats = [algorithm |-> "", steps |-> 0]
    /\ algorithm = ""
    /\ stack = <<>>
    /\ pc = "idle"
    /\ success = FALSE
    /\ returned = Undefined
    /\ input = NoInput
    /\ results = <<>>
    /\ entry = NoGrid
    /\ checked = NoCheck
    /\ difficulty = ""
    /\ seed = 0
    /\ solution = NoGrid
    /\ puzzle = NoGrid
    /\ cellsToRemove = 0
    /\ positions = <<>>
    /\ index = 0
    /\ holesRemaining = 0
    /\ attempts = 0
    /\ digCalls = 0
    /\ backup = 0
    /\ boardCopy = NoGrid
    /\ solutionsFound = 0
    /\ gpc = "idle"
    /\ generated = NoGrid
    /\ ui = Declared
    /\ tasks = <<Task("onMount", "mount", <<>>, 0, 0)>>
    /\ last = ""
    /\ solves = 0

\* The caller takes a grid, then runs up to MaxRuns different algorithms on
\* it, each after a setBoard of that grid.
CallSetBoard ==
    /\ Len(results) < MaxRuns
    /\ \E g \in InputGrids :
          /\ input = NoInput \/ input = g
          /\ SetBoard(g)
          /\ input' = g
    /\ UNCHANGED <<returned, results, entry, checked, genVars, uiVars>>

CallSolve ==
    /\ input # NoInput /\ pc = "ready"
    /\ \E a \in Algorithms :
          /\ \A i \in 1..Len(results) : results[i].algorithm # a
          /\ Solve(a)
    /\ entry' = board
    /\ UNCHANGED <<returned, input, results, checked, genVars, uiVars>>

\* The cells of the grid the caller gave to setBoard, as the caller finds
\* them: `this.board = board.map(row => [...row])`.
CallerGrid == AfterWrites(input, board, MapSpread)

\* The caller keeps what solve handed back, with the grid and the trace it
\* reads next (getSolution, getSolutionSteps).
CallRead ==
    /\ pc = "returned" /\ input # NoInput
    /\ results' = Append(results, [algorithm |-> algorithm,
                                   returned |-> returned,
                                   solution |-> getSolution,
                                   steps |-> getSolutionSteps])
    /\ pc' = "idle"
    /\ UNCHANGED <<board, solutionSteps, currentTestedValues, matrix, rows, cols,
                   boxes, stats, algorithm, stack, success>>
    /\ UNCHANGED <<returned, input, entry, checked, genVars, uiVars>>

Next ==
    \/ CallSetBoard
    \/ CallSolve
    \/ CallRead
    \/ DLXSearch
    \/ DLXTryRow
    \/ DLXBacktrack
    \/ DLXExhausted
    \/ BacktrackSearch
    \/ BacktrackTry
    \/ BacktrackUndo
    \/ BacktrackExhausted
    \/ SimpleSearch
    \/ SimpleTry
    \/ SimpleUndo
    \/ SimpleExhausted
    \/ SolveReturn

Spec == Init /\ [][Next]_vars

\* A search function is running: at the entry of a call, in its loop, or
\* at the return of a nested call.
Searching == pc \in {"call", "loop"} \/ (pc = "ret" /\ stack # <<>>)

\* solve runs synchronously: a call that has begun goes on.  The condition
\* on the search is weak fairness of its steps written out: one of them is
\* enabled exactly when a search function is running, and no other step is.
SearchGoesOn ==
    \/ []<>~Searching
    \/ []<><<Searching>>_vars

FairSpec == Spec /\ SearchGoesOn /\ WF_vars(SolveReturn)

-----------------------------------------------------------------------------
(* SudokuGenerator: random outcomes *)

\* The map k -> a*k + b modulo n on positions 1..n: a permutation when a and
\* n have no common factor.
Affine(n, a, b) == [k \in 1..n |-> ((a * (k - 1) + b) % n) + 1]

\* shuffleArray(array), for the permutation its random swaps add up to.
shuffleArray(array, perm) == [k \in 1..Len(array) |-> array[perm[k]]]

\* Math.random() takes the values u / RandomGrain, u in 0..RandomGrain - 1.
RandomGrain == 1000
\* getRandomInt without `+ min`.
getRandomIntFromZero(min, max, u) == (u * (max - min + 1)) \div RandomGrain
\* getRandomInt(min, max), for Math.random() = u / RandomGrain.
getRandomInt(min, max, u) == ((u * (max - min + 1)) \div RandomGrain) + min
\* The smallest and the largest value Math.random() takes.
RandomDraws == {0, RandomGrain - 1}

\* What a run of the random generator gives the shuffles: one <<a, b>> for
\* each fillBox; for each digHoles call (the last repeats) the positions
\* that come first and <<a, b>> for the order of the others.  In the grid
\* the first table entry fills, the six positions that come first hold two
\* values that can be exchanged among them.
SeedTable ==
    << [boxes |-> << <<8, 1>>, <<2, 4>>, <<2, 8>> >>,
        positions |-> << [first |-> <<26, 27, 52, 54, 61, 62>>, then |-> <<79, 79>>],
                         [first |-> <<>>, then |-> <<7, 29>>] >>],
       [boxes |-> << <<5, 2>>, <<8, 1>>, <<4, 4>> >>,
        positions |-> << [first |-> <<>>, then |-> <<80, 3>>],
                         [first |-> <<>>, then |-> <<61, 32>>] >>] >>
Seeds == 1..Len(SeedTable)

BoxShuffle(s, k) ==
    LET ab == SeedTable[s].boxes[k] IN Affine(9, ab[1], ab[2])
\* The permutation that visits `first`, then the rest in the order of perm.
FirstThen(first, perm) ==
    LET isFirst(i) == \E k \in 1..Len(first) : first[k] = i
        notFirst(i) == ~isFirst(i)
    IN first \o SelectSeq(perm, notFirst)
PositionShuffle(s, k) ==
    LET t == SeedTable[s].positions
        e == t[IF k < Len(t) THEN k ELSE Len(t)]
    IN FirstThen(e.first, Affine(81, e.then[1], e.then[2]))

-----------------------------------------------------------------------------
(* SudokuGenerator *)

difficultyLevels ==
    [easy |-> [min |-> 30, max |-> 35],
     medium |-> [min |-> 35, max |-> 40],
     hard |-> [min |-> 40, max |-> 45],
     extreme |-> [min |-> 46, max |-> 64]]

DifficultyLevel == {"easy", "medium", "hard", "extreme"}

maxAttempts == 1000

\* fillBox(grid, row, col) with `numbers` the shuffled 1..9.
fillBox(g, row, col, numbers) ==
    [r \in Idx |-> [c \in Idx |->
        IF r \in row..(row + 2) /\ c \in col..(col + 2)
        THEN numbers[(r - row) * 3 + (c - col) + 1]
        ELSE g[r][c]]]

\* The array digHoles builds before shuffling it.
AllPositions == [k \in 1..81 |-> <<(k - 1) \div 9, (k - 1) % 9>>]

\* fillRemaining(grid, i, j) before its num loop: the cell it settles on, or
\* done = TRUE where it returns true.
FillCell(i, j) ==
    LET wrap == j >= 9 /\ i < 8
        i1 == IF wrap THEN i + 1 ELSE i
        j1 == IF wrap THEN 0 ELSE j
    IN IF i1 >= 9 /\ j1 >= 9 THEN [i |-> i1, j |-> j1, done |-> TRUE]
       ELSE IF i1 < 3 THEN [i |-> i1, j |-> IF j1 < 3 THEN 3 ELSE j1, done |-> FALSE]
       ELSE IF i1 < 6
       THEN [i |-> i1, j |-> IF j1 = (i1 \div 3) * 3 THEN j1 + 3 ELSE j1, done |-> FALSE]
       ELSE IF j1 = 6 THEN [i |-> i1 + 1, j |-> 0, done |-> i1 + 1 >= 9]
       ELSE [i |-> i1, j |-> j1, done |-> FALSE]

\* The values from num on that the num loop finds safe at (row, col).
SafeFrom(g, row, col, num) == {n \in num..9 : isSafe(g, row, col, n)}
Least(S) == CHOOSE n \in S : \A m \in S : n <= m

-----------------------------------------------------------------------------
(* SudokuGenerator: generateFilledGrid *)

\* fillRemaining(grid, i, j), from its entry to the head of the num loop (or
\* to `return true`, which every calling frame passes on).  f holds the
\* grid, the active calls, the position of the running one and the value the
\* last call returned.
fillRemainingEnter(f) ==
    LET top == LastOf(f.stack)
        cell == FillCell(top.i, top.j)
    IN IF cell.done
       THEN [f EXCEPT !.stack = <<>>, !.ret = TRUE, !.pc = "ret"]
       ELSE [f EXCEPT !.stack = SetTop(@, [i |-> cell.i, j |-> cell.j, num |-> 1]),
                      !.pc = "loop"]

\* fillRemaining, the num loop up to the recursive call: the values that are
\* not safe are passed over, the first safe one is written; `return false`
\* when there is none.
fillRemainingTry(f) ==
    LET top == LastOf(f.stack)
        safe == SafeFrom(f.grid, top.i, top.j, top.num)
        num == Least(safe)
    IN IF safe = {}
       THEN [f EXCEPT !.stack = Pop(@), !.ret = FALSE, !.pc = "ret"]
       ELSE [f EXCEPT !.grid = [@ EXCEPT ![top.i][top.j] = num],
                      !.stack = Append(SetTop(@, [top EXCEPT !.num = num]),
                                       [i |-> top.i, j |-> top.j + 1, num |-> 1]),
                      !.pc = "call"]

\* fillRemaining after the recursive call returned false: grid[i][j] = 0,
\* next num.
fillRemainingUndo(f) ==
    LET top == LastOf(f.stack)
    IN [f EXCEPT !.grid = [@ EXCEPT ![top.i][top.j] = 0],
                 !.stack = SetTop(@, [top EXCEPT !.num = @ + 1]),
                 !.pc = "loop"]

FillReturned(f) == f.pc = "ret" /\ f.stack = <<>>

fillRemainingStep(f) ==
    IF f.pc = "call" THEN fillRemainingEnter(f)
    ELSE IF f.pc = "loop" THEN fillRemainingTry(f)
    ELSE IF f.stack # <<>> THEN fillRemainingUndo(f)
    ELSE f

RECURSIVE fillRemaining(_, _)
\* fillRemaining run from state f until the outermost call returns.
fillRemaining(f, depth) ==
    IF FillReturned(f) THEN f
    ELSE IF depth = 0 THEN fillRemainingStep(f)
    ELSE LET half == fillRemaining(f, depth - 1)
         IN IF FillReturned(half) THEN half ELSE fillRemaining(half, depth - 1)

\* generateFilledGrid() for seed s: the three diagonal boxes, then
\* fillRemaining(grid, 0, 3); the grid is returned whatever that call returned.
generateFilledGrid(s) ==
    LET numbers(k) == shuffleArray(<<1, 2, 3, 4, 5, 6, 7, 8, 9>>, BoxShuffle(s, k))
        g0 == fillBox(EmptyBoard, 0, 0, numbers(1))
        g3 == fillBox(g0, 3, 3, numbers(2))
        g6 == fillBox(g3, 6, 6, numbers(3))
        end == fillRemaining([grid |-> g6, stack |-> <<[i |-> 0, j |-> 3, num |-> 1]>>,
                              ret |-> FALSE, pc |-> "call"], RunDepth)
    IN [grid |-> end.grid, returned |-> FillReturned(end)]

-----------------------------------------------------------------------------
(* SudokuGenerator: hasMultipleSolutions *)

\* findSolutions(currentBoard), from its entry to the head of the num loop
\* at the first empty cell (or to `return true` when no cell is empty).
findSolutionsEnter(f) ==
    IF ~HasEmpty(f.currentBoard)
    THEN [f EXCEPT !.ret = TRUE, !.pc = "ret"]
    ELSE LET row == FirstEmptyRow(f.currentBoard)
             col == FirstEmptyCol(f.currentBoard, row)
         IN [f EXCEPT !.stack = Append(@, [row |-> row, col |-> col, num |-> 1]),
                      !.pc = "loop"]

\* findSolutions, the num loop up to the recursive call: the values that
\* are not safe are passed over, the first safe one is written; `return
\* false` when there is none.
findSolutionsTry(f) ==
    LET top == LastOf(f.stack)
        safe == SafeFrom(f.currentBoard, top.row, top.col, top.num)
        num == Least(safe)
    IN IF safe = {}
       THEN [f EXCEPT !.stack = Pop(@), !.ret = FALSE, !.pc = "ret"]
       ELSE [f EXCEPT !.currentBoard = [@ EXCEPT ![top.row][top.col] = num],
                      !.stack = SetTop(@, [top EXCEPT !.num = num]),
                      !.pc = "call"]

\* findSolutions after the recursive call returned: on true,
\* solutionsFound++ and `return true` at the second solution; otherwise the
\* backtrack and the next num.
findSolutionsAfter(f) ==
    LET top == LastOf(f.stack)
        found == IF f.ret THEN f.solutionsFound + 1 ELSE f.solutionsFound
    IN IF f.ret /\ found > 1
       THEN [f EXCEPT !.solutionsFound = found, !.stack = Pop(@)]
       ELSE [f EXCEPT !.solutionsFound = found,
                      !.currentBoard = [@ EXCEPT ![top.row][top.col] = 0],
                      !.stack = SetTop(@, [top EXCEPT !.num = @ + 1]),
                      !.pc = "loop"]

FindReturned(f) == f.pc = "ret" /\ f.stack = <<>>

findSolutionsStep(f) ==
    IF f.pc = "call" THEN findSolutionsEnter(f)
    ELSE IF f.pc = "loop" THEN findSolutionsTry(f)
    ELSE IF f.stack # <<>> THEN findSolutionsAfter(f)
    ELSE f

RECURSIVE findSolutions(_, _)
\* findSolutions run from state f until the outermost call returns.
findSolutions(f, depth) ==
    IF FindReturned(f) THEN f
    ELSE IF depth = 0 THEN findSolutionsStep(f)
    ELSE LET half == findSolutions(f, depth - 1)
         IN IF FindReturned(half) THEN half ELSE findSolutions(half, depth - 1)

\* hasMultipleSolutions with a count that starts one too low.
hasMultipleSolutionsFromBelow(b) ==
    findSolutions([currentBoard |-> b, solutionsFound |-> 0 - 1, stack |-> <<>>,
                   ret |-> FALSE, pc |-> "call"], RunDepth)

\* hasMultipleSolutions(b): the state findSolutions(b) ends in; the method
\* returns solutionsFound > 1.
hasMultipleSolutions(b) ==
    findSolutions([currentBoard |-> b, solutionsFound |-> 0, stack |-> <<>>,
                   ret |-> FALSE, pc |-> "call"], RunDepth)

-----------------------------------------------------------------------------
(* SudokuGenerator: generatePuzzle and digHoles *)

\* generatePuzzle(d) up to the head of the loop of digHoles(puzzle,
\* cellsToRemove): the filled grid, its copy, the draw of cellsToRemove, the
\* shuffled positions.
GeneratePuzzle(d) ==
    /\ gpc = "idle" /\ pc = "idle" /\ input = NoInput
    /\ difficulty' = d
    /\ \E s \in Seeds : \E filled \in {generateFilledGrid(s)} :
          /\ filled.returned
          /\ seed' = s
          /\ solution' = filled.grid
          /\ positions' = shuffleArray(AllPositions, PositionShuffle(s, 1))
    /\ puzzle' = CopyBoard(solution')
    /\ \E u \in RandomDraws :
          cellsToRemove' = getRandomInt(difficultyLevels[d].min,
                                        difficultyLevels[d].max, u)
    /\ holesRemaining' = cellsToRemove'
    /\ attempts' = 0
    /\ index' = 1
    /\ digCalls' = 1
    /\ gpc' = "digLoop"
    /\ UNCHANGED <<generated, backup, boardCopy, solutionsFound>>
    /\ UNCHANGED <<solverVars, returned, callerVars, uiVars>>

\* A for-of loop that is over before its first pass.
LoopOverAtOnce == TRUE

\* The for-of loop of digHoles is over: positions are used up, or `break`.
LoopOver == index > Len(positions) \/ holesRemaining <= 0 \/ attempts >= maxAttempts

\* digHoles, one pass of the loop: the cell is emptied, the solver is given
\* the copy and solves it (DLX, the default of solve), the result of solve
\* is tested, then hasMultipleSolutions decides whether the hole stays.
\* grid1 and grid2 are the grid after the solver (on a copy of boardCopy, a
\* copy of the grid) and after findSolutions (on boardForCheck, a copy of
\* boardCopy) have written their boards.
DigIteration ==
    /\ gpc = "digLoop" /\ ~LoopOver
    /\ LET row == positions[index][1]
           col == positions[index][2]
           dug == [puzzle EXCEPT ![row][col] = 0]
           copy == CopyBoard(dug)
       IN \E solved \in {solveDLX(CopyBoard(copy), currentTestedValues)} :
          \E handed \in {Object(SolverStats("DLX", solved.solutionSteps))} :
          \E grid1 \in {dug, solved.board} :
             /\ DLXReturned(solved)
             /\ grid1 = AfterWrites(dug, solved.board, MapSpread)
             /\ backup' = puzzle[row][col]
             /\ boardCopy' = copy
             /\ BecomesDLX([solved EXCEPT !.pc = "idle"])
             /\ algorithm' = "DLX"
             /\ stats' = handed.value
             /\ returned' = handed
             /\ IF ~Truthy(handed)
                THEN /\ puzzle' = [grid1 EXCEPT ![row][col] = backup']
                     /\ UNCHANGED <<holesRemaining, solutionsFound>>
                ELSE \E check \in {hasMultipleSolutions(CopyBoard(copy))} :
                     /\ FindReturned(check)
                     /\ solutionsFound' = check.solutionsFound
                     /\ LET grid2 == AfterWrites(grid1, check.currentBoard, MapSpread)
                        IN IF ~(check.solutionsFound > 1)
                           THEN /\ holesRemaining' = holesRemaining - 1
                                /\ puzzle' = grid2
                           ELSE /\ puzzle' = [grid2 EXCEPT ![row][col] = backup']
                                /\ UNCHANGED holesRemaining
    /\ attempts' = attempts + 1
    /\ index' = index + 1
    /\ UNCHANGED <<fillVars, positions, digCalls, gpc>>
    /\ UNCHANGED <<rows, cols, boxes, callerVars, uiVars>>

\* How deep the recursion of digHoles is followed.
MaxDigCalls == 4

\* After the loop, holes are missing and attempts are left:
\* this.digHoles(grid, holesRemaining), up to the head of its loop.
DigRecurse ==
    /\ gpc = "digLoop" /\ LoopOver
    /\ holesRemaining > 0 /\ attempts < maxAttempts
    /\ digCalls < MaxDigCalls
    /\ positions' = shuffleArray(AllPositions, PositionShuffle(seed, digCalls + 1))
    /\ attempts' = 0
    /\ index' = 1
    /\ digCalls' = digCalls + 1
    /\ UNCHANGED <<fillVars, puzzle, holesRemaining, backup, boardCopy, solutionsFound,
                   gpc>>
    /\ UNCHANGED <<solverVars, returned, callerVars, uiVars>>

\* After the loop, otherwise: every digHoles call returns, and
\* generatePuzzle returns {puzzle, solution}.
DigReturn ==
    /\ gpc = "digLoop" /\ LoopOver
    /\ ~(holesRemaining > 0 /\ attempts < maxAttempts)
    /\ generated' = [puzzle |-> puzzle, solution |-> solution]
    /\ gpc' = "done"
    /\ UNCHANGED <<difficulty, seed, solution, cellsToRemove, digVars>>
    /\ UNCHANGED <<solverVars, returned, callerVars, uiVars>>

GenNext ==
    \/ \E d \in DifficultyLevel : GeneratePuzzle(d)
    \/ DigIteration
    \/ DigRecurse
    \/ DigReturn

GenSpec == Init /\ [][GenNext]_vars

\* generatePuzzle runs synchronously: a call that has begun goes on.  The
\* condition on the loop of digHoles is WF_vars(DigIteration) written out:
\* DigIteration is enabled exactly when the loop is not over, and it is the
\* step that moves index on.
DigLoopGoesOn ==
    \/ []<>~(gpc = "digLoop" /\ ~LoopOver)
    \/ []<><<gpc = "digLoop" /\ index' = index + 1>>_vars

GenFairSpec ==
    GenSpec /\ DigLoopGoesOn /\ WF_vars(DigRecurse) /\ WF_vars(DigReturn)

\* A caller that solves with any algorithm, again without a setBoard when
\* the board is full, and writes to the list getSolutionSteps gave it.
TraceGrids == Stuck \cup {Dig(Base, {<<0, 7>>, <<0, 8>>, <<8, 7>>, <<8, 8>>})}

TraceSetBoard == CallSetBoard /\ input' \in TraceGrids

TraceSolve ==
    /\ input # NoInput /\ Len(results) < MaxRuns
    /\ pc = "ready" \/ ~HasEmpty(board)
    /\ \E a \in Algorithms : Solve(a)
    /\ entry' = board
    /\ UNCHANGED <<returned, input, results, checked, genVars, uiVars>>

\* The writes of a caller to the value of getSolutionSteps(): to the list
\* (pop, push) or to the first Step in it (finalValue, testedValues).
ListWrites == {"pop", "push"}
StepWrites == {"finalValue", "testedValues"}
Written(steps, write) ==
    IF write = "pop" THEN Pop(steps)
    ELSE IF write = "push" THEN Append(steps, steps[1])
    ELSE IF write = "finalValue" THEN [steps EXCEPT ![1].finalValue = 0]
    ELSE [steps EXCEPT ![1].testedValues = <<>>]

\* `return [...this.solutionSteps]`: the spread builds a new array of the
\* same Step objects, so a write to the array stays with the caller and a
\* write to a Step is a write to the Step of the trace.
Mutate ==
    /\ pc = "idle" /\ results # <<>> /\ solutionSteps # <<>>
    /\ \E write \in ListWrites \cup StepWrites :
          solutionSteps' = AfterWrites(solutionSteps,
                                       Written(getSolutionSteps, write),
                                       IF write \in ListWrites THEN Spread
                                       ELSE SpreadElement)
    /\ UNCHANGED <<board, currentTestedValues, matrix, rows, cols, boxes, stats,
                   algorithm, stack, pc, success>>
    /\ UNCHANGED clientVars

TraceNext ==
    \/ TraceSetBoard
    \/ TraceSolve
    \/ CallRead
    \/ Mutate
    \/ DLXSearch
    \/ DLXTryRow
    \/ DLXBacktrack
    \/ DLXExhausted
    \/ BacktrackSearch
    \/ BacktrackTry
    \/ BacktrackUndo
    \/ BacktrackExhausted
    \/ SimpleSearch
    \/ SimpleTry
    \/ SimpleUndo
    \/ SimpleExhausted
    \/ SolveReturn

TraceSpec == Init /\ [][TraceNext]_vars

\* The constraint checkers, each called on a grid, a cell and a value.
CheckGrids == InputGrids \cup {Base}

Check ==
    /\ checked = NoCheck
    /\ \E g \in CheckGrids : \E row \in Idx : \E col \in Idx : \E num \in Digits :
          checked' = [grid |-> g, row |-> row, col |-> col, num |-> num,
                      isValid |-> isValid(g, row, col, num),
                      isSafe |-> isSafe(g, row, col, num),
                      after |-> g]
    /\ UNCHANGED <<solverVars, returned, input, results, entry, genVars, uiVars>>

CheckNext == Check

CheckSpec == Init /\ [][CheckNext]_vars

\* A solver under its caller, or a generator.
BothNext ==
    \/ gpc = "idle" /\ Next
    \/ GenNext

BothSpec == Init /\ [][BothNext]_vars

-----------------------------------------------------------------------------
(* Sudoku, stated apart from the solver and the generator *)

Cells == Idx \X Idx
RowCells(r) == {<<r, c>> : c \in Idx}
ColCells(c) == {<<r, c>> : r \in Idx}
BoxCells(k) == {p \in Cells : BoxOf(p[1], p[2]) = k}
Units == {RowCells(r) : r \in Idx} \cup {ColCells(c) : c \in Idx}
             \cup {BoxCells(k) : k \in Idx}

\* Every row, column and box of b holds each of 1..9 exactly once.
ValidGrid(b) ==
    \A U \in Units : \A n \in Digits :
        Cardinality({p \in U : b[p[1]][p[2]] = n}) = 1

\* s keeps every clue of g.
Extends(s, g) == \A p \in Cells : g[p[1]][p[2]] # 0 => s[p[1]][p[2]] = g[p[1]][p[2]]

\* s is a legal completion of g.
Completes(s, g) == ValidGrid(s) /\ Extends(s, g)

ZeroCells(g) == {p \in Cells : g[p[1]][p[2]] = 0}

\* The values no clue in the row, column or box of the empty cell p excludes.
Candidates(g, p) ==
    LET seen == {g[q[1]][q[2]] : q \in RowCells(p[1]) \cup ColCells(p[2])
                                         \cup BoxCells(BoxOf(p[1], p[2]))}
    IN Digits \ seen

\* Two clues of g clash: a value stands twice in a row, column or box.
Clashing(g) ==
    \E U \in Units : \E p, q \in U :
        p # q /\ g[p[1]][p[2]] # 0 /\ g[p[1]][p[2]] = g[q[1]][q[2]]

\* One round of forced moves: an empty cell with a single candidate takes
\* it; a value with a single place left in some row, column or box goes
\* there.  Every completion of g is a completion of Forced(g).
Forced(g) ==
    LET cand == [p \in Cells |-> IF g[p[1]][p[2]] = 0 THEN Candidates(g, p) ELSE {}]
        only(p) == IF Cardinality(cand[p]) = 1 THEN cand[p]
                   ELSE {n \in cand[p] :
                            \E U \in Units : p \in U /\ \A q \in U \ {p} : n \notin cand[q]}
    IN IF cand = <<>> THEN g
       ELSE [r \in Idx |-> [c \in Idx |->
                IF only(<<r, c>>) # {} THEN Least(only(<<r, c>>)) ELSE g[r][c]]]

RECURSIVE Propagate(_)
Propagate(g) == LET h == Forced(g) IN IF h = g THEN g ELSE Propagate(h)

\* How many guesses the completion count may stack before it gives up.
MaxBranch == 1

\* The completions of g, as far as two of them: decided says the search
\* ended within the guesses allowed, grids holds the completions it met.
RECURSIVE Completions(_, _)
RECURSIVE CompletionsAmong(_, _, _, _, _)
Completions(g, budget) ==
    LET h == Propagate(g)
        open == ZeroCells(h)
    IN IF Clashing(g)
       THEN [decided |-> TRUE, grids |-> {}]
       ELSE IF open = {}
       THEN [decided |-> TRUE, grids |-> IF Completes(h, g) THEN {h} ELSE {}]
       ELSE IF \E p \in open : Candidates(h, p) = {}
       THEN [decided |-> TRUE, grids |-> {}]
       ELSE IF budget = 0
       THEN [decided |-> FALSE, grids |-> {}]
       ELSE LET p == CHOOSE q \in open :
                         \A q2 \in open : Cardinality(Candidates(h, q))
                                              <= Cardinality(Candidates(h, q2))
            IN CompletionsAmong(h, p, Candidates(h, p), budget - 1, {})
CompletionsAmong(h, p, values, budget, found) ==
    IF values = {} \/ Cardinality(found) >= 2
    THEN [decided |-> TRUE, grids |-> found]
    ELSE LET n == Least(values)
             sub == Completions(Put(h, p[1], p[2], n), budget)
         IN IF ~sub.decided THEN sub
            ELSE CompletionsAmong(h, p, values \ {n}, budget, found \cup sub.grids)

\* g has exactly one legal completion (and the count could tell).
ExactlyOne(g) ==
    LET known == Completions(g, MaxBranch)
    IN known.decided /\ Cardinality(known.grids) = 1
\* g has a legal completion: the base grid is one, or the count met one.
Solvable(g) ==
    \/ Completes(Base, g)
    \/ LET known == Completions(g, MaxBranch)
       IN known.decided /\ known.grids # {}
\* g has no legal completion.
Unsolvable(g) ==
    LET known == Completions(g, MaxBranch)
    IN known.decided /\ known.grids = {}

-----------------------------------------------------------------------------
(* The Dancing Links solver alone, on grids with and without completion *)

CoverGrids ==
    Stuck \cup {Dig(Base, {<<0, 7>>, <<0, 8>>, <<8, 7>>, <<8, 8>>}), Sparse, Ambiguous}

CoverSetBoard == CallSetBoard /\ input' \in CoverGrids
CoverSolve == CallSolve /\ algorithm' = "DLX"

CoverNext ==
    \/ CoverSetBoard
    \/ CoverSolve
    \/ DLXSearch
    \/ DLXTryRow
    \/ DLXBacktrack
    \/ DLXExhausted
    \/ SolveReturn
    \/ CallRead

CoverSpec == Init /\ [][CoverNext]_vars

RECURSIVE Ring(_, _, _)
\* The header ring walked from column s.at for 2^k steps, or up to the header.
Ring(m, s, k) ==
    IF s.at = Header THEN s
    ELSE IF k = 0 THEN [at |-> m.right[s.at], seen |-> s.seen \cup {s.at}]
    ELSE LET half == Ring(m, s, k - 1) IN Ring(m, half, k - 1)

\* The columns still in the header ring of m.
LiveColumns(m) == Ring(m, [at |-> m.right[Header], seen |-> {}], 9).seen

-----------------------------------------------------------------------------
(* The solver's contract *)

\* The caller has read the outcome of its last solve and runs nothing.
Settled == pc = "idle" /\ input # NoInput /\ results # <<>>

Ran(i, a) == i \in 1..Len(results) /\ results[i].algorithm = a

\* C1: after setBoard(G) and solve(a) on a grid G that has a completion,
\* getSolution() has no zero cell, keeps every clue of G and holds each of
\* 1..9 exactly once in every row, column and box, for each of the three
\* algorithms.
C1_SolveCompletes ==
    Settled /\ Solvable(input)
        => \A i \in 1..Len(results) : Completes(results[i].solution, input)

\* DLX, BACKTRACK and SIMPLE, one after the other, have completed a grid
\* that had empty cells.
C1_Witness ==
    /\ Settled /\ Solvable(input) /\ ZeroCells(input) # {}
    /\ Ran(1, "DLX") /\ Ran(2, "BACKTRACK") /\ Ran(3, "SIMPLE")
    /\ \A i \in 1..3 : Completes(results[i].solution, input)

\* C2 as stated: on every grid that has a completion the algorithms run on
\* it end with the same grid, cell for cell.
C2_SameGridWhenSolvable ==
    Settled /\ Solvable(input)
        => \A i, j \in 1..Len(results) : results[i].solution = results[j].solution

\* C2: on every grid that has exactly one completion, the algorithms run on
\* it end with the same grid, cell for cell.
C2_SameGridWhenUnique ==
    Settled /\ ExactlyOne(input)
        => \A i, j \in 1..Len(results) : results[i].solution = results[j].solution

\* SIMPLE, DLX and BACKTRACK have run on a grid with empty cells and one
\* completion, and ended with the same grid.
C2_Witness ==
    /\ Settled /\ ExactlyOne(input) /\ ZeroCells(input) # {}
    /\ Ran(1, "SIMPLE") /\ Ran(2, "DLX") /\ Ran(3, "BACKTRACK")
    /\ results[1].solution = results[2].solution
    /\ results[2].solution = results[3].solution

\* C3 as stated: what solve hands back on a grid without completion is
\* false or empty, so that `if (!solve())` takes the failure branch.
C3_FailureIsFalsy ==
    Settled /\ Unsolvable(input)
        => \A i \in 1..Len(results) : ~Truthy(results[i].returned)

\* C4: at any moment, every Step in the trace has a non-empty testedValues
\* whose last element is the Step's finalValue.
C4_LastTestedIsFinal ==
    \A i \in 1..Len(solutionSteps) :
        LET step == solutionSteps[i]
        IN /\ step.testedValues # <<>>
           /\ step.testedValues[Len(step.testedValues)] = step.finalValue

\* In the middle of a search: the Step just pushed tested more than one
\* value, and the last of them is its finalValue.
C4_Witness ==
    /\ pc = "call" /\ stack # <<>> /\ solutionSteps # <<>>
    /\ LET step == solutionSteps[Len(solutionSteps)]
       IN /\ Len(step.testedValues) > 1
          /\ step.testedValues[Len(step.testedValues)] = step.finalValue

\* C5: in every matrix state of a DLX solve, for every column c still in
\* the header ring, cover(c) followed by uncover(c) leaves every left,
\* right, up and down pointer and every size counter as before.
C5_CoverUncoverRestores ==
    \A c \in LiveColumns(matrix) : uncover(cover(matrix, c), c) = matrix

\* In the middle of a search, below two chosen rows: covering a column of
\* the ring takes nodes out of other columns, and uncovering it restores the
\* matrix.
C5_Witness ==
    /\ algorithm = "DLX" /\ pc = "loop" /\ Len(stack) >= 2
    /\ \E c \in LiveColumns(matrix) :
          LET covered == cover(matrix, c)
          IN /\ covered.size # matrix.size
             /\ covered.up # matrix.up
             /\ uncover(covered, c) = matrix

-----------------------------------------------------------------------------
(* The generator's contract *)

Holes(g) == Cardinality(ZeroCells(g))

\* C6: generatePuzzle returns {puzzle, solution} where solution has no zero
\* cell and holds each of 1..9 exactly once in every row, column and box,
\* and every non-zero cell of puzzle equals the cell of solution; digHoles
\* leaves solution alone and writes 0 or the original value into puzzle.
C6_PuzzleWithinSolution ==
    /\ gpc # "idle"
          => /\ ValidGrid(solution)
             /\ Extends(solution, puzzle)
             /\ solution = generateFilledGrid(seed).grid
    /\ gpc = "done" => generated = [puzzle |-> puzzle, solution |-> solution]

\* generatePuzzle has returned a puzzle with holes; one iteration of
\* digHoles at least wrote the original value back.
C6_Witness ==
    /\ gpc = "done" /\ Holes(generated.puzzle) > 0
    /\ attempts > Holes(generated.puzzle)
    /\ ValidGrid(generated.solution)
    /\ Extends(generated.solution, generated.puzzle)

\* C7: after every iteration of the digHoles loop the grid being dug has
\* exactly one completion, and so has the puzzle generatePuzzle returns;
\* that completion is the solution.
C7_OneCompletion ==
    gpc \in {"digLoop", "done"}
        => LET known == Completions(puzzle, MaxBranch)
           IN known.decided /\ known.grids = {solution}

\* An iteration has just found two completions and written the value back:
\* the grid still has one completion.
C7_Witness ==
    /\ gpc = "digLoop" /\ index > 1 /\ solutionsFound > 1
    /\ puzzle[positions[index - 1][1]][positions[index - 1][2]] = backup
    /\ backup # 0
    /\ Completions(puzzle, MaxBranch).grids = {solution}

\* The removal ranges C8 names.
RemovalRange ==
    [easy |-> 30..35, medium |-> 35..40, hard |-> 40..45, extreme |-> 46..64]

-----------------------------------------------------------------------------
(* solveSimple: the completion it finds *)

\* Cell q comes before cell p in row-major order.
Earlier(q, p) == q[1] < p[1] \/ (q[1] = p[1] /\ q[2] < p[2])

\* Grid g with the cells before p filled as in s, and v at p.
Branch(s, g, p, v) ==
    [r \in Idx |-> [c \in Idx |->
        IF <<r, c>> = p THEN v
        ELSE IF Earlier(<<r, c>>, p) THEN s[r][c]
        ELSE g[r][c]]]

\* s is the completion of g that comes first when cells are read in
\* row-major order: no completion agrees with s up to an empty cell of g and
\* has a smaller value there.
LeastCompletion(s, g) ==
    /\ Completes(s, g)
    /\ \A p \in ZeroCells(g) : \A v \in 1..(s[p[1]][p[2]] - 1) :
          Unsolvable(Branch(s, g, p, v))

\* C9: on a grid that has a completion, solve(SIMPLE) ends with the
\* completion that comes first in row-major order; on the all-zero grid
\* row 0 of the result is 1, 2, ..., 9.
C9_SimpleFindsLeast ==
    Settled
        => \A i \in 1..Len(results) :
              results[i].algorithm = "SIMPLE"
                 => /\ input = EmptyBoard
                          => /\ Completes(results[i].solution, input)
                             /\ results[i].solution[0] = [c \in Idx |-> c + 1]
                    /\ input # EmptyBoard /\ Solvable(input)
                          => LeastCompletion(results[i].solution, input)

\* SIMPLE has run on the grid with several completions and ended with the
\* first of them; DLX, run next, has ended with another one.
C9_Witness ==
    /\ Settled /\ input = Ambiguous /\ Ran(1, "SIMPLE") /\ Ran(2, "DLX")
    /\ LeastCompletion(results[1].solution, input)
    /\ Completes(results[2].solution, input)
    /\ results[2].solution # results[1].solution

\* A grid without clashes and with one empty cell: a full valid grid but
\* for one cell.
OneEmpty(g) == Holes(g) = 1 /\ ~Clashing(g)
TheEmpty(g) == CHOOSE p \in Cells : g[p[1]][p[2]] = 0
\* The one value 1..9 the row of p lacks.
TheValue(g, p) == CHOOSE v \in Digits : \A c \in Idx : g[p[1]][c] # v

\* C10 as stated: on a grid without clashes and with one empty cell, each
\* algorithm leaves a trace of one Step whose testedValues has length 1.
C10_OneStepOneTest ==
    Settled /\ OneEmpty(input)
        => \A i \in 1..Len(results) :
              /\ Len(results[i].steps) = 1
              /\ Len(results[i].steps[1].testedValues) = 1

\* C10: on a grid without clashes and with one empty cell, whose legal
\* value is v, each algorithm leaves a trace of one Step, for that cell and
\* with finalValue v; its testedValues is <<v>> after DLX and BACKTRACK and
\* <<1, ..., v>> after SIMPLE.
C10_OneStepTestsUpToValue ==
    Settled /\ OneEmpty(input)
        => \A i \in 1..Len(results) :
              LET p == TheEmpty(input)
                  v == TheValue(input, p)
                  steps == results[i].steps
              IN /\ Len(steps) = 1
                 /\ steps[1].row = p[1] /\ steps[1].col = p[2]
                 /\ steps[1].finalValue = v
                 /\ steps[1].testedValues =
                       IF results[i].algorithm = "SIMPLE"
                       THEN [k \in 1..v |-> k] ELSE <<v>>

\* BACKTRACK, DLX and SIMPLE have run on a grid whose one empty cell takes
\* a value above 1: one Step each, one tested value for BACKTRACK and DLX,
\* all values up to the legal one for SIMPLE.
C10_Witness ==
    /\ Settled /\ OneEmpty(input) /\ TheValue(input, TheEmpty(input)) > 1
    /\ Ran(1, "BACKTRACK") /\ Ran(2, "DLX") /\ Ran(3, "SIMPLE")
    /\ \A i \in 1..3 : Len(results[i].steps) = 1
    /\ Len(results[1].steps[1].testedValues) = 1
    /\ Len(results[2].steps[1].testedValues) = 1
    /\ Len(results[3].steps[1].testedValues) = TheValue(input, TheEmpty(input))

-----------------------------------------------------------------------------
(* Copies and traces *)

C12_TraceIsProtected ==
    [][Mutate => getSolutionSteps' = getSolutionSteps]_vars

\* C13: when a solve has returned, every Step of the trace was pushed by
\* this solve (at a cell that was empty when solve was called, no cell
\* twice), the steps of the Stats it returned is the length of the trace,
\* and both are empty and 0 when the board had no empty cell; after a
\* setBoard the trace is empty.
C13_TraceOfLastSolve ==
    /\ pc = "ready" => solutionSteps = <<>>
    /\ pc = "returned" =>
          /\ returned = Object(stats)
          /\ stats.steps = Len(solutionSteps)
          /\ \A i \in 1..Len(solutionSteps) :
                /\ entry[solutionSteps[i].row][solutionSteps[i].col] = 0
                /\ \A j \in 1..Len(solutionSteps) :
                      /\ solutionSteps[i].row = solutionSteps[j].row
                      /\ solutionSteps[i].col = solutionSteps[j].col
                      => i = j
          /\ ZeroCells(entry) = {} => solutionSteps = <<>> /\ stats.steps = 0

\* A second solve, on the board the first one filled and with the trace of
\* the first one still there when it was called, has returned.
C13_Witness ==
    /\ pc = "returned" /\ Len(results) = 1
    /\ results[1].steps # <<>>
    /\ ZeroCells(entry) = {} /\ entry = results[1].solution
    /\ solutionSteps = <<>> /\ stats.steps = 0

-----------------------------------------------------------------------------
(* Backtracking *)

\* C14: when the search below a row tried by searchDLX has failed, the undo
\* of that row puts the board and the trace back as they were before the
\* row was tried: the row of a cell filled when solve was called leaves the
\* cell with its value and the trace as it is, the row of a cell empty when
\* solve was called empties the cell again and pops the Step it pushed.
C14_UndoRestores ==
    [][(algorithm = "DLX" /\ AtBacktrack(DLXState) /\ pc' = "loop") =>
          LET row == LastOf(stack).row
              r == matrix.row[row]
              c == matrix.col[row]
          IN IF entry[r][c] # 0
             THEN board'[r][c] = entry[r][c] /\ solutionSteps' = solutionSteps
             ELSE board'[r][c] = 0 /\ solutionSteps' = Pop(solutionSteps)]_vars

\* The searchDLX call that is about to begin, run to its return.
CallToReturn == searchDLX([DLXState EXCEPT !.stack = <<>>], RunDepth)

\* C15: a searchDLX call that returns false leaves the matrix, every link
\* and every size, the header ring included, as it was when the call began.
C15_FailedSearchRestoresLinks ==
    (algorithm = "DLX" /\ AtSearch(DLXState)) =>
        LET done == CallToReturn
        IN (DLXReturned(done) /\ ~done.success) => done.matrix = matrix

\* A call is about to begin that will cover a column, try a row of it, and
\* return false.
C15_Witness ==
    /\ algorithm = "DLX" /\ AtSearch(DLXState)
    /\ matrix.right[Header] # Header
    /\ ChooseColumn(matrix).minSize > 0
    /\ LET done == CallToReturn
       IN DLXReturned(done) /\ ~done.success /\ done.matrix = matrix

-----------------------------------------------------------------------------
(* The tested values of a Step *)

UpTo(n) == [i \in 1..n |-> i]
\* The values of set S in ascending order.
Ascending(S) ==
    [k \in 1..Cardinality(S) |->
        CHOOSE v \in S : Cardinality({w \in S : w < v}) = k - 1]

\* The board as it was when the search came to the cell of the i-th Step of
\* the trace: the cells of that Step and of the later ones are empty.
BoardAtVisit(i) ==
    [r \in Idx |-> [c \in Idx |->
        IF \E j \in i..Len(solutionSteps) :
              solutionSteps[j].row = r /\ solutionSteps[j].col = c
        THEN 0 ELSE board[r][c]]]

\* C16: in a SIMPLE run, the testedValues of every Step of the trace is
\* 1, 2, ..., finalValue.
C16_SimpleTestedIsOneToFinal ==
    algorithm = "SIMPLE" =>
        \A i \in 1..Len(solutionSteps) :
            solutionSteps[i].testedValues = UpTo(solutionSteps[i].finalValue)

\* C17: in a BACKTRACK run, the testedValues of every Step of the trace is
\* the ascending list of the values placed at the cell of the Step since the
\* search came to it: the values up to finalValue that nothing in the row,
\* column and box of the cell held then.
C17_BacktrackTestedIsOwnCell ==
    algorithm = "BACKTRACK" =>
        \A i \in 1..Len(solutionSteps) :
            LET step == solutionSteps[i]
                before == BoardAtVisit(i)
            IN step.testedValues =
                  Ascending({v \in 1..step.finalValue :
                                isValid(before, step.row, step.col, v)})

-----------------------------------------------------------------------------
(* Bit masks and the constraint checker *)

\* C18: in a BACKTRACK run, when a searchBacktrack call begins and when one
\* has returned, bit v of rows[r] is set exactly when v is in row r of the
\* board, and likewise for cols and the columns, boxes and the boxes.
C18_MasksMatchBoard ==
    (algorithm = "BACKTRACK" /\ pc \in {"call", "ret"}) =>
        /\ \A r \in Idx : Bits(rows[r]) = {board[r][c] : c \in Idx} \ {0}
        /\ \A c \in Idx : Bits(cols[c]) = {board[r][c] : r \in Idx} \ {0}
        /\ \A b \in Idx :
              Bits(boxes[b]) = {board[p[1]][p[2]] : p \in BoxCells(b)} \ {0}

\* A nested searchBacktrack call has returned false, values placed above it.
C18_Witness ==
    /\ algorithm = "BACKTRACK" /\ pc = "ret" /\ ~success
    /\ Len(stack) > 1 /\ solutionSteps # <<>>
    /\ \A r \in Idx : Bits(rows[r]) = {board[r][c] : c \in Idx} \ {0}

\* The cells of the row, the column and the box of cell p.
Peers(p) == RowCells(p[1]) \cup ColCells(p[2]) \cup BoxCells(BoxOf(p[1], p[2]))
\* No cell among S holds value v in grid g.
Free(g, S, v) == \A p \in S : g[p[1]][p[2]] # v

-----------------------------------------------------------------------------
(* The matrix createMatrix builds *)

\* createMatrix has just run: the outermost searchDLX is about to begin.
MatrixBuilt == algorithm = "DLX" /\ pc = "call" /\ stack = <<>>

\* The nodes of the candidate rows, and those of candidate (r, c, v).
RowNodes(m) == (NumColumns + 2)..m.nodes
NodesOf(m, r, c, v) ==
    {x \in RowNodes(m) : m.row[x] = r /\ m.col[x] = c /\ m.num[x] = v}
\* The candidates createMatrix is to add for board b.
CandidatesOf(b) ==
    {t \in Idx \X Idx \X Digits : b[t[1]][t[2]] \in {0, t[3]}}

RECURSIVE Below(_, _, _, _)
\* The nodes met going down from node x until column col, at most k of them.
Below(m, col, x, k) ==
    IF x = col \/ k = 0 THEN {}
    ELSE {x} \cup Below(m, col, m.down[x], k - 1)
VerticalList(m, col) == Below(m, col, m.down[col], 10)

\* The four columns of candidate (r, c, v).
ColumnsOf(r, c, v) ==
    {Columns(r * 9 + c), Columns(81 + r * 9 + (v - 1)),
     Columns(162 + c * 9 + (v - 1)), Columns(243 + BoxOf(r, c) * 9 + (v - 1))}

\* C20: after createMatrix the header ring holds the 324 columns; there are
\* 9 candidate rows for each empty cell and one for each filled cell; every
\* candidate has one node in each of its four columns, the four of them in
\* one horizontal circle; the size of every column is the number of nodes
\* of its vertical list.
C20_MatrixIsWellFormed ==
    MatrixBuilt =>
        LET m == matrix
            empty == Cardinality(ZeroCells(board))
            live == LiveColumns(m)
        IN /\ Cardinality(live) = 324
           /\ live = {Columns(i) : i \in 0..323}
           /\ m.left[Header] = Columns(323) /\ m.right[Header] = Columns(0)
           /\ Cardinality(RowNodes(m)) = 4 * (9 * empty + (81 - empty))
           /\ {<<m.row[x], m.col[x], m.num[x]>> : x \in RowNodes(m)}
                 = CandidatesOf(board)
           /\ Cardinality(CandidatesOf(board)) = 9 * empty + (81 - empty)
           /\ \A t \in CandidatesOf(board) :
                 LET four == NodesOf(m, t[1], t[2], t[3])
                 IN /\ Cardinality(four) = 4
                    /\ Cardinality(ColumnsOf(t[1], t[2], t[3])) = 4
                    /\ {m.column[x] : x \in four} = ColumnsOf(t[1], t[2], t[3])
                    /\ \A x \in four :
                          /\ {x, m.right[x], m.right[m.right[x]],
                              m.right[m.right[m.right[x]]]} = four
                          /\ m.right[m.right[m.right[m.right[x]]]] = x
                          /\ m.left[m.right[x]] = x
           /\ \A col \in live :
                 /\ VerticalList(m, col) = {x \in RowNodes(m) : m.column[x] = col}
                 /\ m.size[col] = Cardinality(VerticalList(m, col))

\* createMatrix has run on a grid with empty cells and filled cells: the
\* column of a filled cell has one node, that of an empty cell nine.
C20_Witness ==
    /\ MatrixBuilt
    /\ ZeroCells(board) \notin {{}, Cells}
    /\ \E p \in Cells : board[p[1]][p[2]] # 0 /\ matrix.size[Columns(p[1] * 9 + p[2])] = 1
    /\ \E p \in ZeroCells(board) : matrix.size[Columns(p[1] * 9 + p[2])] = 9

-----------------------------------------------------------------------------
(* The column searchDLX chooses *)

RECURSIVE RingTo(_, _, _, _)
\* The header ring walked from column s.at for 2^k steps, or up to `stop`.
RingTo(m, stop, s, k) ==
    IF s.at = stop \/ s.at = Header THEN s
    ELSE IF k = 0 THEN [at |-> m.right[s.at], seen |-> s.seen \cup {s.at}]
    ELSE LET half == RingTo(m, stop, s, k - 1) IN RingTo(m, stop, half, k - 1)
\* The columns that come before column c in the header ring of m.
RingBefore(m, c) == RingTo(m, c, [at |-> m.right[Header], seen |-> {}], 9).seen

\* C21: a searchDLX call that finds columns in the header ring chooses the
\* first column of the ring that is as small as it (every column before it
\* is larger), and that column is a smallest one of the ring or has size 1;
\* when the column chosen has size 0, the call returns false and the
\* matrix, the board, the trace and the stack are as they were.
C21_ChoosesFirstSmallest ==
    (algorithm = "DLX" /\ AtSearch(DLXState) /\ matrix.right[Header] # Header) =>
        LET chosen == ChooseColumn(matrix)
            live == LiveColumns(matrix)
            after == searchDLXEnter(DLXState)
        IN /\ chosen.minColumn \in live
           /\ chosen.minSize = matrix.size[chosen.minColumn]
           /\ \A c \in RingBefore(matrix, chosen.minColumn) :
                 matrix.size[c] > chosen.minSize
           /\ \/ \A c \in live : matrix.size[c] >= chosen.minSize
              \/ chosen.minSize = 1
           /\ chosen.minSize = 0 =>
                 /\ after.pc = "ret" /\ ~after.success
                 /\ after.matrix = matrix /\ after.board = board
                 /\ after.solutionSteps = solutionSteps /\ after.stack = stack

\* A call is about to choose a column that is not the first of the ring,
\* among columns of several sizes, with another column as small after it.
C21_Witness ==
    /\ algorithm = "DLX" /\ AtSearch(DLXState) /\ matrix.right[Header] # Header
    /\ LET chosen == ChooseColumn(matrix)
       IN /\ RingBefore(matrix, chosen.minColumn) # {}
          /\ \E c \in LiveColumns(matrix) \ RingBefore(matrix, chosen.minColumn) :
                c # chosen.minColumn /\ matrix.size[c] = chosen.minSize

-----------------------------------------------------------------------------
(* Termination *)

\* C22: a generatePuzzle call that has come to digHoles returns, for each
\* difficulty and each outcome of the shuffles of SeedTable; the removal attempts of digHoles, those of the
\* invocations that are over (one for each of the 81 positions at most) and
\* those of the running one together, are never more than maxAttempts; and
\* what is returned is the grid as dug so far.
C22_DiggingEnds ==
    /\ [](gpc = "digLoop" =>
             /\ attempts <= Len(positions)
             /\ Len(positions) * (digCalls - 1) + attempts <= maxAttempts)
    /\ [](gpc = "done" => generated.puzzle = puzzle)
    /\ (gpc = "digLoop") ~> (gpc = "done")

\* generatePuzzle has returned after a second invocation of digHoles, with
\* fewer holes dug than were asked for.
C22_Witness ==
    /\ gpc = "done" /\ digCalls > 1
    /\ generated.puzzle = puzzle
    /\ Holes(puzzle) < cellsToRemove

\* C23: a solve call that has begun, with any of the three algorithms, on
\* a grid with or without completion, returns.
C23_SolveReturns ==
    (pc = "call" /\ stack = <<>>) ~> (pc = "returned")

\* A solve has returned after its search ran out of candidates, on a grid
\* without completion.
C23_Witness ==
    /\ pc = "returned" /\ ~success
    /\ input \in Stuck /\ algorithm = "SIMPLE"

-----------------------------------------------------------------------------
(* The trace and the grid *)

\* The replay of one Step that stops after the tested values were cleared.
ShowStepCleared(b, step) ==
    IF Len(step.testedValues) > 1
    THEN [b EXCEPT ![step.row][step.col] = 0]
    ELSE [b EXCEPT ![step.row][step.col] = step.finalValue]

\* solvePuzzle, the body of the replay loop for one Step on board b: up to
\* two of the tested values are shown and cleared, then finalValue is set.
ShowStep(b, step) ==
    LET n == Len(step.testedValues)
        visibleTests == IF n < 3 THEN n ELSE 3
        shown == IF n > 1 /\ visibleTests > 1
                 THEN [b EXCEPT ![step.row][step.col] = 0]
                 ELSE b
    IN [shown EXCEPT ![step.row][step.col] = step.finalValue]

RECURSIVE ShowSteps(_, _, _)
\* solvePuzzle, the replay loop from Step i on.
ShowSteps(b, steps, i) ==
    IF i > Len(steps) THEN b
    ELSE ShowSteps(ShowStep(b, steps[i]), steps, i + 1)

\* solvePuzzle, the board at its end: a copy of originalBoard, then the
\* replay of the trace.
solvePuzzleBoard(originalBoard, steps) == ShowSteps(CopyBoard(originalBoard), steps, 1)

\* C25: when a solve has returned true, the trace has one Step for each
\* cell that was empty when solve was called and no other Step, the steps of
\* the Stats is the number of those cells, and the replay of the trace on
\* the grid given ends on getSolution().
C25_TraceFillsTheGrid ==
    (pc = "returned" /\ success) =>
        /\ {<<solutionSteps[i].row, solutionSteps[i].col>> :
               i \in 1..Len(solutionSteps)} = ZeroCells(entry)
        /\ Len(solutionSteps) = Cardinality(ZeroCells(entry))
        /\ stats.steps = Cardinality(ZeroCells(entry))
        /\ solvePuzzleBoard(entry, getSolutionSteps) = getSolution

\* A solve has returned true after it took a value back: the trace has a
\* Step with several tested values.
C25_Witness ==
    /\ pc = "returned" /\ success
    /\ ZeroCells(entry) # {}
    /\ \E i \in 1..Len(solutionSteps) : Len(solutionSteps[i].testedValues) > 1
    /\ solvePuzzleBoard(entry, getSolutionSteps) = getSolution

-----------------------------------------------------------------------------
(* A solve that fails *)

\* C26: when solve has returned on a grid with no legal completion, with any
\* algorithm, getSolution() is the grid that was passed to setBoard and
\* getSolutionSteps() is empty.
C26_FailedSolveRestores ==
    (pc = "returned" /\ Unsolvable(input)) =>
        /\ getSolution = input
        /\ getSolutionSteps = <<>>

-----------------------------------------------------------------------------
(* BACKTRACK and SIMPLE side by side *)

\* The cells and values of a trace, in the order of the trace.
Fills(steps) ==
    [k \in 1..Len(steps) |->
        <<steps[k].row, steps[k].col, steps[k].finalValue>>]

\* The cells of a trace come in row-major order.
RowMajor(steps) ==
    \A k \in 1..Len(steps) - 1 :
        steps[k].row * 9 + steps[k].col < steps[k + 1].row * 9 + steps[k + 1].col

\* C27: on a grid that has a completion, one or several, BACKTRACK and
\* SIMPLE end with the same grid and with traces that hold the same cells
\* and final values in the same order, the row-major order of the cells.
C27_BacktrackIsSimple ==
    Settled /\ Solvable(input)
        => \A i, j \in 1..Len(results) :
              Ran(i, "BACKTRACK") /\ Ran(j, "SIMPLE")
                 => /\ results[i].solution = results[j].solution
                    /\ Fills(results[i].steps) = Fills(results[j].steps)
                    /\ RowMajor(results[i].steps)
                    /\ RowMajor(results[j].steps)

\* BACKTRACK and SIMPLE have run on the grid with several completions and
\* ended with the same grid and the same cells and values, with different
\* tested values.
C27_Witness ==
    /\ Settled /\ input = Ambiguous
    /\ \E i, j \in 1..Len(results) :
          /\ Ran(i, "BACKTRACK") /\ Ran(j, "SIMPLE")
          /\ results[i].solution = results[j].solution
          /\ Fills(results[i].steps) = Fills(results[j].steps)
          /\ results[i].steps # <<>>
          /\ results[i].steps # results[j].steps

-----------------------------------------------------------------------------
(* The count of holes *)

\* C28: across a digHoles call and its recursive calls, the grid has as
\* many zero cells as holes were counted, cellsToRemove - holesRemaining
\* (the filled grid has none at the start); a digging that has ended with
\* holesRemaining = 0 has dug cellsToRemove holes.
C28_HolesAreCounted ==
    gpc \in {"digLoop", "done"}
        => Holes(puzzle) = cellsToRemove - holesRemaining

-----------------------------------------------------------------------------
(* SudokuSolver: a whole solve call, for the callers that go on after it *)

\* searchBacktrack, one step of a search in state s (the fields are the
\* solver's fields, the call stack, and where the innermost call is).
searchBacktrackStep(s) ==
    LET top == LastOf(s.stack)
    IN IF s.pc = "call"
       THEN IF ~HasEmpty(s.board)
            THEN [s EXCEPT !.success = TRUE, !.stack = <<>>, !.pc = "ret"]
            ELSE LET row == FirstEmptyRow(s.board)
                     col == FirstEmptyCol(s.board, row)
                     validNums == getValidNumbers(s.rows, s.cols, s.boxes, row, col)
                 IN [s EXCEPT !.currentTestedValues = <<>>,
                              !.stack = Append(@, [row |-> row, col |-> col,
                                                   nums |-> validNums, num |-> 0]),
                              !.pc = "loop"]
       ELSE IF s.pc = "loop"
       THEN IF top.nums = 0
            THEN [s EXCEPT !.stack = Pop(@), !.success = FALSE, !.pc = "ret"]
            ELSE LET num == LowestBit(top.nums)
                     nums == BitAndNot(top.nums, num)
                     value == Log2(num)
                     box == BoxOf(top.row, top.col)
                     tested == Append(s.currentTestedValues, value)
                 IN [s EXCEPT !.currentTestedValues = tested,
                              !.rows[top.row] = BitOr(@, num) % 65536,
                              !.cols[top.col] = BitOr(@, num) % 65536,
                              !.boxes[box] = BitOr(@, num) % 65536,
                              !.board[top.row][top.col] = value,
                              !.solutionSteps =
                                  Append(@, Step(top.row, top.col, tested, value)),
                              !.stack = SetTop(@, [top EXCEPT !.nums = nums,
                                                              !.num = num]),
                              !.pc = "call"]
       ELSE IF s.stack # <<>>
       THEN LET box == BoxOf(top.row, top.col)
            IN [s EXCEPT !.rows[top.row] = BitAndNot(@, top.num) % 65536,
                         !.cols[top.col] = BitAndNot(@, top.num) % 65536,
                         !.boxes[box] = BitAndNot(@, top.num) % 65536,
                         !.board[top.row][top.col] = 0,
                         !.solutionSteps = Pop(@),
                         !.pc = "loop"]
       ELSE s

\* solveSimple, one step of a search in state s.
solveSimpleStep(s) ==
    LET top == LastOf(s.stack)
    IN IF s.pc = "call"
       THEN IF ~HasEmpty(s.board)
            THEN [s EXCEPT !.success = TRUE, !.stack = <<>>, !.pc = "ret"]
            ELSE LET row == FirstEmptyRow(s.board)
                     col == FirstEmptyCol(s.board, row)
                 IN [s EXCEPT !.currentTestedValues = <<>>,
                              !.stack = Append(@, [row |-> row, col |-> col,
                                                   num |-> 1]),
                              !.pc = "loop"]
       ELSE IF s.pc = "loop"
       THEN IF top.num > 9
            THEN [s EXCEPT !.stack = Pop(@), !.success = FALSE, !.pc = "ret"]
            ELSE LET tested == Append(s.currentTestedValues, top.num)
                 IN IF isValid(s.board, top.row, top.col, top.num)
                    THEN [s EXCEPT !.currentTestedValues = tested,
                                   !.board[top.row][top.col] = top.num,
                                   !.solutionSteps =
                                       Append(@, Step(top.row, top.col, tested,
                                                      top.num)),
                                   !.pc = "call"]
                    ELSE [s EXCEPT !.currentTestedValues = tested,
                                   !.stack = SetTop(@, [top EXCEPT !.num = @ + 1])]
       ELSE IF s.stack # <<>>
       THEN [s EXCEPT !.board[top.row][top.col] = 0,
                      !.solutionSteps = Pop(@),
                      !.stack = SetTop(@, [top EXCEPT !.num = @ + 1]),
                      !.pc = "loop"]
       ELSE s

\* The search of algorithm a has returned to solve.
SearchReturned(s) == s.pc = "ret" /\ s.stack = <<>>

RECURSIVE search(_, _, _)
\* searchBacktrack or solveSimple run from state s until the outermost call
\* returns, the steps taken in two halves as in searchDLX.
search(a, s, depth) ==
    IF SearchReturned(s) THEN s
    ELSE IF depth = 0
    THEN IF a = "BACKTRACK" THEN searchBacktrackStep(s) ELSE solveSimpleStep(s)
    ELSE CHOOSE t \in {IF SearchReturned(half) THEN half ELSE search(a, half, depth - 1) :
                          half \in {search(a, s, depth - 1)}} : TRUE

\* solve(a) of a solver in state s (its fields), to its return: the fields
\* after the call, with the Stats it hands back.
solve(a, s) ==
    LET begun == [s EXCEPT !.solutionSteps = <<>>, !.algorithm = a,
                           !.stack = <<>>, !.pc = "call"]
        byDLX ==
            {[begun EXCEPT !.board = t.board,
                           !.solutionSteps = t.solutionSteps,
                           !.currentTestedValues = t.currentTestedValues,
                           !.matrix = t.matrix, !.stack = t.stack,
                           !.pc = t.pc, !.success = t.success] :
                t \in {searchDLX([board |-> begun.board,
                                  solutionSteps |-> <<>>,
                                  currentTestedValues |-> begun.currentTestedValues,
                                  matrix |-> createMatrix(begun.board),
                                  stack |-> <<>>, pc |-> "call",
                                  success |-> begun.success], RunDepth)}}
        byBacktrack ==
            {search(a, [begun EXCEPT
                           !.rows = [r \in Idx |-> RowMask(begun.board, r)],
                           !.cols = [c \in Idx |-> ColMask(begun.board, c)],
                           !.boxes = [b \in Idx |-> BoxMask(begun.board, b)]],
                    RunDepth)}
        bySimple == {search(a, begun, RunDepth)}
    IN CHOOSE t \in {[ended EXCEPT !.stats = SolverStats(a, ended.solutionSteps),
                                   !.pc = "returned"] :
                        ended \in IF a = "DLX" THEN byDLX
                                  ELSE IF a = "BACKTRACK" THEN byBacktrack
                                  ELSE bySimple} : TRUE

\* The solver's fields as one value.
SolverState ==
    [board |-> board, solutionSteps |-> solutionSteps,
     currentTestedValues |-> currentTestedValues, matrix |-> matrix,
     rows |-> rows, cols |-> cols, boxes |-> boxes, stats |-> stats,
     algorithm |-> algorithm, stack |-> stack, pc |-> pc, success |-> success]

\* The solver's fields take the values of t.
BecomesSolver(t) ==
    /\ board' = t.board
    /\ solutionSteps' = t.solutionSteps
    /\ currentTestedValues' = t.currentTestedValues
    /\ matrix' = t.matrix
    /\ rows' = t.rows
    /\ cols' = t.cols
    /\ boxes' = t.boxes
    /\ stats' = t.stats
    /\ algorithm' = t.algorithm
    /\ stack' = t.stack
    /\ pc' = t.pc
    /\ success' = t.success

-----------------------------------------------------------------------------
(* The page component: its handlers, and its async calls at their awaits *)

\* How many solve calls are followed, how many calls may wait at an await
\* when a step animation begins, and how far the step cursor is taken.
MaxSolves == 2
MaxTasks == 1
MaxShown == 1

\* What generator.generatePuzzle hands back for the first entry of
\* SeedTable, at difficulty 'medium' with 35 cells to remove.
GeneratedSolution ==
    Grid(<< <<2, 1, 9, 3, 5, 4, 7, 6, 8>>,
            <<8, 7, 6, 1, 9, 2, 4, 3, 5>>,
            <<5, 4, 3, 6, 8, 7, 1, 9, 2>>,
            <<1, 3, 2, 5, 7, 9, 8, 4, 6>>,
            <<7, 9, 8, 2, 4, 6, 5, 1, 3>>,
            <<4, 6, 5, 8, 1, 3, 2, 7, 9>>,
            <<3, 5, 1, 7, 6, 8, 9, 2, 4>>,
            <<9, 2, 7, 4, 3, 5, 6, 8, 1>>,
            <<6, 8, 4, 9, 2, 1, 3, 5, 7>> >>)
GeneratedPuzzle ==
    Grid(<< <<2, 1, 9, 3, 5, 4, 7, 6, 8>>,
            <<8, 7, 6, 1, 0, 2, 0, 3, 0>>,
            <<5, 0, 3, 0, 8, 0, 1, 0, 0>>,
            <<0, 3, 0, 5, 0, 9, 0, 4, 0>>,
            <<7, 0, 8, 0, 4, 0, 5, 0, 3>>,
            <<0, 6, 0, 8, 0, 3, 0, 7, 0>>,
            <<3, 0, 1, 0, 6, 0, 0, 2, 4>>,
            <<0, 2, 0, 4, 0, 5, 0, 8, 0>>,
            <<6, 0, 4, 0, 2, 0, 3, 0, 7>> >>)
Generated == {[puzzle |-> GeneratedPuzzle, solution |-> GeneratedSolution]}

\* What the user types, cell after cell: in puzzle creation mode seven
\* values in row 0 and one below them, which leave 9 alone for both (0,0)
\* and (0,1), then the value of a cell that the generated puzzle leaves empty.
Typed ==
    << [row |-> 0, col |-> 2, num |-> 1], [row |-> 0, col |-> 3, num |-> 2],
       [row |-> 0, col |-> 4, num |-> 3], [row |-> 0, col |-> 5, num |-> 4],
       [row |-> 0, col |-> 6, num |-> 5], [row |-> 0, col |-> 7, num |-> 6],
       [row |-> 0, col |-> 8, num |-> 7], [row |-> 1, col |-> 0, num |-> 8],
       [row |-> 1, col |-> 4, num |-> 9] >>

\* The entries of Typed whose cell is empty on board b.
ToType(b) == {k \in 1..Len(Typed) : b[Typed[k].row][Typed[k].col] = 0}

\* The board of puzzle creation mode after the first n entries of Typed.
RECURSIVE TypedBoard(_)
TypedBoard(n) ==
    IF n = 0
    THEN EmptyBoard
    ELSE [TypedBoard(n - 1) EXCEPT ![Typed[n].row][Typed[n].col] = Typed[n].num]

\* The puzzles that the user asks a solve of.
PageBoards == {GeneratedPuzzle, TypedBoard(Len(Typed) - 1), TypedBoard(Len(Typed))}

\* new SudokuSolver(): the solver's fields as the constructor leaves them.
Constructed ==
    [board |-> EmptyBoard, solutionSteps |-> <<>>, currentTestedValues |-> <<>>,
     matrix |-> NoMatrix, rows |-> [i \in Idx |-> 0], cols |-> [i \in Idx |-> 0],
     boxes |-> [i \in Idx |-> 0], stats |-> [algorithm |-> "", steps |-> 0],
     algorithm |-> "", stack |-> <<>>, pc |-> "idle", success |-> FALSE]

\* solve(a) of each puzzle of PageBoards by the solver as constructed,
\* worked out once.
Solved ==
    {[algorithm |-> a, board |-> b,
      solver |-> solve(a, [Constructed EXCEPT !.board = b, !.pc = "ready"])] :
        a \in Algorithms, b \in PageBoards}

\* solve(a) by solver s, whose board is one of PageBoards: the fields that
\* algorithm a writes are those of Solved, the others stay as s has them.
solveAgain(a, s) ==
    CHOOSE t \in {[e.solver EXCEPT
                      !.matrix = IF a = "DLX" THEN e.solver.matrix ELSE s.matrix,
                      !.rows = IF a = "BACKTRACK" THEN e.solver.rows ELSE s.rows,
                      !.cols = IF a = "BACKTRACK" THEN e.solver.cols ELSE s.cols,
                      !.boxes = IF a = "BACKTRACK" THEN e.solver.boxes ELSE s.boxes] :
                    e \in {x \in Solved : x.algorithm = a /\ x.board = s.board}} : TRUE

\* q without its k-th entry.
Without(q, k) == SubSeq(q, 1, k - 1) \o SubSeq(q, k + 1, Len(q))
\* The places in tasks of the calls of fn that wait at `at`.
Waiting(fn, at) == {k \in 1..Len(tasks) : tasks[k].fn = fn /\ tasks[k].at = at}

\* onMount has run: the page takes the user's events.
Mounted == Waiting("onMount", "mount") = {}

\* The solver and the generator are left alone.
SolverIdle == UNCHANGED <<solverVars, returned, callerVars, genVars>>

\* generateNewPuzzle(), with `result` what generatePuzzle handed back.
NewPuzzle(u, result) ==
    [u EXCEPT !.isPuzzleCreationMode = FALSE,
              !.isStepMode = FALSE,
              !.board = result.puzzle,
              !.originalBoard = CopyBoard(result.puzzle),
              !.solution = result.solution,
              !.selectedCell = Null,
              !.showingSolution = FALSE,
              !.isSolving = FALSE,
              !.currentStep = 0 - 1,
              !.isAnimatingTests = FALSE]

\* onMount(() => { ...; generateNewPuzzle(); })
onMount ==
    /\ \E k \in Waiting("onMount", "mount") : tasks' = Without(tasks, k)
    /\ \E result \in Generated : ui' = NewPuzzle(ui, result)
    /\ last' = "generateNewPuzzle"
    /\ UNCHANGED solves
    /\ SolverIdle

\* The New Puzzle button (disabled while isSolving).
generateNewPuzzle ==
    /\ Mounted /\ ~ui.isSolving
    /\ \E result \in Generated : ui' = NewPuzzle(ui, result)
    /\ last' = "generateNewPuzzle"
    /\ UNCHANGED <<tasks, solves>>
    /\ SolverIdle

\* handleCellClick(row, col)
handleCellClick(row, col) ==
    /\ Mounted
    /\ ~(ui.originalBoard[row][col] # 0 \/ ui.isSolving)
    /\ ui' = [ui EXCEPT !.selectedCell = <<row, col>>]
    /\ last' = Other
    /\ UNCHANGED <<tasks, solves>>
    /\ SolverIdle

\* handleNumberInput, puzzle creation mode: the test of num at (row, col)
\* against the column, the box and the row of board b.
InputIsValid(b, row, col, num) ==
    /\ ~\E i \in Idx :
          \/ i # row /\ b[i][col] = num
          \/ \E j \in Idx : /\ j # col /\ b[i][j] = num
                            /\ i \div 3 = row \div 3 /\ j \div 3 = col \div 3
    /\ ~\E j \in Idx : j # col /\ b[row][j] = num

\* handleNumberInput(num)
handleNumberInput(num) ==
    /\ Mounted
    /\ ~(ui.selectedCell = Null \/ ui.isSolving)
    /\ LET row == ui.selectedCell[1]
           col == ui.selectedCell[2]
       IN ui' = IF ui.isPuzzleCreationMode
                THEN IF InputIsValid(ui.board, row, col, num)
                     THEN [ui EXCEPT !.board[row][col] = num,
                                     !.originalBoard[row][col] = num]
                     ELSE ui
                ELSE IF ui.originalBoard[row][col] = 0
                     THEN [ui EXCEPT !.board[row][col] = num]
                     ELSE ui
    /\ last' = Other
    /\ UNCHANGED <<tasks, solves>>
    /\ SolverIdle

\* clearCell()
clearCell ==
    /\ Mounted
    /\ ~(ui.isSolving \/ ui.selectedCell = Null)
    /\ LET row == ui.selectedCell[1]
           col == ui.selectedCell[2]
       IN ui' = IF ui.originalBoard[row][col] = 0
                THEN [ui EXCEPT !.board[row][col] = 0]
                ELSE ui
    /\ last' = Other
    /\ UNCHANGED <<tasks, solves>>
    /\ SolverIdle

\* clearAll()
clearAll ==
    /\ Mounted /\ ~ui.isSolving
    /\ ui' = [ui EXCEPT !.board = EmptyBoard,
                        !.originalBoard = EmptyBoard,
                        !.selectedCell = Null,
                        !.isPuzzleCreationMode = TRUE]
    /\ last' = Other
    /\ UNCHANGED <<tasks, solves>>
    /\ SolverIdle

\* solver.setBoard(originalBoard.map(row => [...row])) from a handler.
GivesBoard(u) ==
    /\ SetBoard(CopyBoard(u.originalBoard))
    /\ UNCHANGED <<returned, callerVars, genVars>>

\* solvePuzzle(), up to its first await.
solvePuzzle ==
    /\ Mounted /\ ~ui.isSolving
    /\ solves < MaxSolves /\ Len(tasks) < MaxTasks
    /\ ui' = [ui EXCEPT !.isSolving = TRUE, !.isStepMode = FALSE,
                        !.currentStep = 0 - 1]
    /\ GivesBoard(ui)
    /\ tasks' = Append(tasks, Task("solvePuzzle", "solve", <<>>, 0, 0))
    /\ last' = Other
    /\ UNCHANGED solves

\* solveStepByStep(), up to its await, on the component's variables.
StepByStep(u) ==
    [u EXCEPT !.isSolving = TRUE, !.isStepMode = TRUE, !.currentStep = 0 - 1]

\* The Step Mode button: solveStepByStep(), up to its await.
solveStepByStep ==
    /\ Mounted /\ ~ui.isSolving
    /\ solves < MaxSolves /\ Len(tasks) < MaxTasks
    /\ ui' = StepByStep(ui)
    /\ GivesBoard(ui)
    /\ tasks' = Append(tasks, Task("solveStepByStep", "solve", <<>>, 0, 0))
    /\ last' = Other
    /\ UNCHANGED solves

\* The algorithm select (bind:value, disabled while isSolving) takes value
\* a; in step mode the reactive statement then calls solveStepByStep().
selectAlgorithm(a) ==
    /\ Mounted /\ ~ui.isSolving
    /\ a # ui.selectedAlgorithm
    /\ IF ui.isStepMode
       THEN /\ solves < MaxSolves /\ Len(tasks) < MaxTasks
            /\ ui' = StepByStep([ui EXCEPT !.selectedAlgorithm = a])
            /\ GivesBoard(ui)
            /\ tasks' = Append(tasks, Task("solveStepByStep", "solve", <<>>, 0, 0))
       ELSE /\ ui' = [ui EXCEPT !.selectedAlgorithm = a]
            /\ UNCHANGED tasks
            /\ SolverIdle
    /\ last' = Other
    /\ UNCHANGED solves

\* solver.solve(selectedAlgorithm) from a handler: t is the solver after it.
Solves(t) ==
    /\ pc = "ready"
    /\ BecomesSolver([t EXCEPT !.pc = "idle"])
    /\ returned' = Object(t.stats)
    /\ solves' = solves + 1
    /\ UNCHANGED <<callerVars, genVars>>

\* solveStepByStep(), from its await to its end.
solveStepByStepSolved ==
    \E k \in Waiting("solveStepByStep", "solve") :
    \E t \in {solveAgain(ui.selectedAlgorithm, SolverState)} :
        /\ Solves(t)
        /\ ui' = [ui EXCEPT !.solutionSteps = t.solutionSteps,
                            !.board = CopyBoard(ui.originalBoard),
                            !.isSolving = FALSE]
        /\ tasks' = Without(tasks, k)
        /\ UNCHANGED last

\* solvePuzzle, the replay loop from the head of the pass for Step i to the
\* next await (u and q are the variables and the waiting calls without
\* this one): the first tested value is shown, or finalValue is set.
ReplaysStep(u, q, steps, i) ==
    IF i > Len(steps)
    THEN /\ ui' = [u EXCEPT !.isSolving = FALSE]
         /\ tasks' = q
    ELSE LET step == steps[i]
         IN IF Len(step.testedValues) > 1
            THEN /\ ui' = [u EXCEPT !.board[step.row][step.col] =
                                        step.testedValues[1]]
                 /\ tasks' = Append(q, Task("solvePuzzle", "shown", steps, i, 1))
            ELSE /\ ui' = [u EXCEPT !.board[step.row][step.col] = step.finalValue]
                 /\ tasks' = Append(q, Task("solvePuzzle", "set", steps, i, 0))

\* solvePuzzle(), from its first await to the next one (or to its end, when
\* the trace is empty).
solvePuzzleSolved ==
    \E k \in Waiting("solvePuzzle", "solve") :
    \E t \in {solveAgain(ui.selectedAlgorithm, SolverState)} :
        /\ Solves(t)
        /\ ReplaysStep([ui EXCEPT !.board = CopyBoard(ui.originalBoard)],
                       Without(tasks, k), t.solutionSteps, 1)
        /\ UNCHANGED last

\* solvePuzzle, from an await of the replay loop to the next one (or to the
\* end): after a tested value was shown the cell is cleared; after it was
\* cleared the next tested value is shown or finalValue is set; after
\* finalValue was set the next Step is taken.
solvePuzzleReplay ==
    \E k \in 1..Len(tasks) :
        LET t == tasks[k]
            step == t.steps[t.i]
            n == Len(step.testedValues)
            visibleTests == IF n < 3 THEN n ELSE 3
            q == Without(tasks, k)
        IN /\ t.fn = "solvePuzzle" /\ t.at # "solve"
           /\ IF t.at = "shown"
              THEN /\ ui' = [ui EXCEPT !.board[step.row][step.col] = 0]
                   /\ tasks' = Append(q, [t EXCEPT !.at = "cleared"])
              ELSE IF t.at = "cleared"
              THEN IF t.j < visibleTests - 1
                   THEN /\ ui' = [ui EXCEPT !.board[step.row][step.col] =
                                                step.testedValues[t.j + 1]]
                        /\ tasks' = Append(q, [t EXCEPT !.at = "shown",
                                                        !.j = t.j + 1])
                   ELSE /\ ui' = [ui EXCEPT !.board[step.row][step.col] =
                                                step.finalValue]
                        /\ tasks' = Append(q, [t EXCEPT !.at = "set", !.j = 0])
              ELSE ReplaysStep(ui, q, t.steps, t.i + 1)
           /\ UNCHANGED <<last, solves>>
           /\ SolverIdle

\* nextStep, the animation loop from the head of the pass for tested value
\* i of `step` to the next await, or to the end of nextStep.
AnimatesTest(u, q, step, i) ==
    IF i <= Len(step.testedValues)
    THEN /\ ui' = [u EXCEPT !.board[step.row][step.col] = step.testedValues[i]]
         /\ tasks' = Append(q, Task("nextStep", "shown", <<step>>, i, 0))
    ELSE /\ ui' = [u EXCEPT !.board[step.row][step.col] = step.finalValue,
                            !.isAnimatingTests = FALSE]
         /\ tasks' = q

\* The Next button: nextStep(), to its first await or to its end.
nextStep ==
    /\ Mounted
    /\ ~(~ui.isStepMode \/ ui.currentStep >= Len(ui.solutionSteps) - 1
                         \/ ui.isAnimatingTests)
    /\ ui.currentStep + 1 < MaxShown
    /\ LET step == ui.solutionSteps[ui.currentStep + 2]
           u == [ui EXCEPT !.currentStep = @ + 1]
       IN IF Len(step.testedValues) > 1
          THEN /\ Len(tasks) < MaxTasks
               /\ AnimatesTest([u EXCEPT !.isAnimatingTests = TRUE], tasks, step, 1)
          ELSE /\ ui' = [u EXCEPT !.board[step.row][step.col] = step.finalValue]
               /\ UNCHANGED tasks
    /\ last' = Other
    /\ UNCHANGED solves
    /\ SolverIdle

\* nextStep, from an await of the animation to the next one, or to the end:
\* after baseDelay a tested value that is not finalValue is cleared, after
\* failDelay the next tested value is taken.
nextStepResumed ==
    \E k \in 1..Len(tasks) :
        LET t == tasks[k]
            step == t.steps[1]
            q == Without(tasks, k)
        IN /\ t.fn = "nextStep"
           /\ IF t.at = "shown" /\ step.testedValues[t.i] # step.finalValue
              THEN /\ ui' = [ui EXCEPT !.board[step.row][step.col] = 0]
                   /\ tasks' = Append(q, [t EXCEPT !.at = "cleared"])
              ELSE AnimatesTest(ui, q, step, t.i + 1)
           /\ UNCHANGED <<last, solves>>
           /\ SolverIdle

\* The Previous button: prevStep().  Where currentStep is past the end of
\* solutionSteps, `step` is undefined and the handler throws at step.row.
prevStep ==
    /\ Mounted
    /\ ~(~ui.isStepMode \/ ui.currentStep < 0 \/ ui.isAnimatingTests)
    /\ IF ui.currentStep + 1 > Len(ui.solutionSteps)
       THEN UNCHANGED ui
       ELSE LET step == ui.solutionSteps[ui.currentStep + 1]
                u == [ui EXCEPT !.board[step.row][step.col] = 0,
                                !.currentStep = @ - 1]
            IN ui' = IF u.currentStep >= 0
                     THEN LET prev == ui.solutionSteps[u.currentStep + 1]
                          IN [u EXCEPT !.board[prev.row][prev.col] = prev.finalValue]
                     ELSE u
    /\ last' = Other
    /\ UNCHANGED <<tasks, solves>>
    /\ SolverIdle

\* The Show Solution button (in the page while showingSolution is false).
showSolution ==
    /\ Mounted /\ ~ui.showingSolution
    /\ ~(ui.solution = Null \/ ui.isSolving)
    /\ ui' = [ui EXCEPT !.showingSolution = TRUE,
                        !.board = CopyBoard(ui.solution)]
    /\ last' = Other
    /\ UNCHANGED <<tasks, solves>>
    /\ SolverIdle

\* The Hide Solution button (in the page while showingSolution is true).
hideSolution ==
    /\ Mounted /\ ui.showingSolution
    /\ ~(ui.solution = Null \/ ui.isSolving)
    /\ ui' = [ui EXCEPT !.showingSolution = FALSE,
                        !.board = CopyBoard(ui.originalBoard)]
    /\ last' = Other
    /\ UNCHANGED <<tasks, solves>>
    /\ SolverIdle

\* resetPuzzle()
resetPuzzle ==
    /\ Mounted /\ ~ui.isSolving
    /\ ui' = [ui EXCEPT !.board = CopyBoard(ui.originalBoard),
                        !.selectedCell = Null,
                        !.isStepMode = FALSE,
                        !.currentStep = 0 - 1,
                        !.showingSolution = FALSE]
    /\ last' = "resetPuzzle"
    /\ UNCHANGED <<tasks, solves>>
    /\ SolverIdle

\* The user asks for a solve when the puzzle is the generated one, or its
\* own with the values of Typed.
Created == ui.originalBoard \in PageBoards

\* No call of the page is waiting at an await.
Quiet == tasks = <<>>

\* The user goes through Typed: the cell clicked is the first of them that
\* is empty on the board, the number typed is the one given for the cell.
\* Cells are edited and the solution is looked at between the animations;
\* the puzzle and the step buttons are used during them as well.
PageNext ==
    \/ onMount
    \/ generateNewPuzzle
    \/ \E k \in ToType(ui.board) :
          /\ Quiet
          /\ \A j \in ToType(ui.board) : k <= j
          /\ handleCellClick(Typed[k].row, Typed[k].col)
    \/ \E k \in 1..Len(Typed) :
          /\ Quiet
          /\ ui.selectedCell = <<Typed[k].row, Typed[k].col>>
          /\ handleNumberInput(Typed[k].num)
    \/ Quiet /\ clearCell
    \/ clearAll
    \/ Created /\ solvePuzzle
    \/ solvePuzzleSolved
    \/ solvePuzzleReplay
    \/ Created /\ solveStepByStep
    \/ solveStepByStepSolved
    \/ \E a \in Algorithms : (ui.isStepMode => Created) /\ selectAlgorithm(a)
    \/ nextStep
    \/ nextStepResumed
    \/ prevStep
    \/ Quiet /\ showSolution
    \/ Quiet /\ hideSolution
    \/ resetPuzzle

PageSpec == Init /\ [][PageNext]_vars

\* C24: from resetPuzzle or generateNewPuzzle until the user's next action,
\* board equals originalBoard cell for cell, whatever waiting call goes on
\* in between.
C24_BoardStaysReset ==
    last \in {"resetPuzzle", "generateNewPuzzle"}
        => ui.board = ui.originalBoard

\* C29: whenever showSolution can replace the board (solution is not null
\* and no solve is running), solution has the value of originalBoard at
\* every cell where originalBoard is not zero.
C29_SolutionKeepsClues ==
    (Mounted /\ ui.solution # Null /\ ~ui.isSolving)
        => \A p \in Cells :
              ui.originalBoard[p[1]][p[2]] # 0
                 => ui.solution[p[1]][p[2]] = ui.originalBoard[p[1]][p[2]]

\* C30: whenever isStepMode is true, -1 <= currentStep and
\* currentStep <= solutionSteps.length - 1.
C30_CursorInRange ==
    ui.isStepMode
        => /\ 0 - 1 <= ui.currentStep
           /\ ui.currentStep <= Len(ui.solutionSteps) - 1

=============================================================================
